---- MODULE Spec2Model ----
(***************************************************************************)
(* Graph editor of the pipeline designer (NodeEditorComponent):            *)
(* nodes, ports and edges, the two-phase connect interaction, the          *)
(* connection-validity table, node/edge deletion, the two startup          *)
(* timers (addExampleNodes and its auto-connect callback), the pointer     *)
(* interaction (pan, zoom, node drag, double-click) and the configuration  *)
(* panel with its commit.                                                  *)
(***************************************************************************)
EXTENDS Integers, Sequences, FiniteSets, TLC

VARIABLES
    nodes,           \* GraphNode[]  (this.nodes)
    edges,           \* GraphEdge[]  (this.edges)
    selectedNode,    \* <<>> (null) or <<ref of a node object>>
    connectingPort,  \* <<>> (null) or <<[nodeId, portId, type]>>
    tempEdgeEnd,     \* <<>> (null) or <<[x, y]>>
    showNodeMenu,    \* node creation menu open
    contextMenuCanvasPos, \* canvas-space point recorded by the last right-click
    canvasOffset,    \* pan offset, screen units
    canvasScale,     \* zoom scale, a decimal fraction [digits, exp]
    now,             \* the value Date.now() returns
    nextRef,         \* identity of the next object allocated (object references)
    timer,           \* which startup timer is pending: "examples", "connect" or "none"
    isPanning,       \* a pan is in progress
    panStart,        \* pointer position of the last pan event
    draggingNode,    \* <<>> (null) or <<ref of the node object being dragged>>
    dragOffset,      \* canvas-space offset of the press point from the node's origin
    lastClickTime,   \* Date.now() of the last pointer-down on a node, 0 after a double-click
    lastClickedNode, \* <<>> (null) or <<ref of the node object last pressed>>
    showDetailPanel, \* configuration (detail) panel open
    detailNode,      \* <<>> (null) or <<ref of the node object being configured>>
    selectedId,      \* id chosen in the configuration form, "" for none
    selectedVersion, \* version chosen in the configuration form, "" for none
    availableDatasets, \* the catalogs last received from the backend, one per
    availableModels,   \* kind that has one
    availableMetrics,
    selectedDataFile,        \* data file chosen in the form of a dataset, "" for none
    selectedGroundTruthFile, \* ground-truth file chosen there, "" for none
    availableHyperparameters, \* hyperparameter definitions of the chosen version
    hyperparameterSets, \* the hyperparameter sets shown in the form
    parameters,      \* the heap of `parameters' objects of hyperparameter sets, by reference
    availableTasks,      \* context view: the tasks last received from the backend
    selectedTaskId,      \* context view: id of the task chosen, "" for none
    selectedTaskType,    \* context view: task_name of the task chosen
    selectedTaskVersion, \* context view: version chosen
    taskVersions,        \* context view: version numbers of the task chosen
    taskTypeChange,      \* context view: the events its last handler run emitted
    startedOn,       \* history: the node object on which the pending connection was started
    ev,              \* history: what the last handler run showed (alert, error)
    steps            \* history: user events handled, counted where a run is bounded

pointerVars == <<isPanning, panStart, draggingNode, dragOffset, lastClickTime,
                 lastClickedNode>>

(* the other fields of the configuration form, and the catalogs it reads *)
formVars == <<availableDatasets, availableModels, availableMetrics, selectedDataFile,
              selectedGroundTruthFile, availableHyperparameters, hyperparameterSets,
              parameters>>

(* the fields of the context view (ContextViewComponent) *)
contextVars == <<availableTasks, selectedTaskId, selectedTaskType, selectedTaskVersion,
                 taskVersions, taskTypeChange>>

(* the panels beside the canvas: the detail panel with its form, and the    *)
(* context view                                                             *)
panelVars == <<showDetailPanel, detailNode, selectedId, selectedVersion, formVars,
               contextVars>>

vars == <<nodes, edges, selectedNode, connectingPort, tempEdgeEnd, showNodeMenu,
          contextMenuCanvasPos, canvasOffset, canvasScale, now, nextRef, timer,
          pointerVars, panelVars, startedOn, ev, steps>>

----------------------------------------------------------------------------
(* Bounds *)

MaxTime == 1         \* Date.now() ranges over 0..MaxTime
MaxUserNodes == 1    \* nodes the user creates from the menu
MaxEdges == 1        \* a connection is started only while fewer edges exist
MaxEvents == 4       \* user events of a run of the pointer interaction
MaxWheel == 1        \* decimals of the scale up to which the wheel turns in such a run
MaxEdits == 3        \* user events of a run that edits the graph
MaxSteps == 2        \* user events of a run in which every handler may act
MaxZoom == 24        \* decimals of the scale up to which the wheel turns when only zooming
MantissaBits == 8    \* significand width of the floating-point numbers (a double has 53)
MaxSets == 1         \* hyperparameter sets added in a run
MaxPanel == 4        \* pointer-downs and deletions of a run of the configuration panel

(* the double-click window of onNodeMouseDown, in ms *)
DoubleClickWindow == 300

----------------------------------------------------------------------------
(* Data *)

Kinds == {"dataset", "processor", "model", "metric"}

Null == <<>>
Some(v) == <<v>>
IsNull(o) == o = <<>>
The(o) == o[1]

(* The records of the backend's catalogs (getDatasets, getModels,           *)
(* getMetrics).  id and name stand for dataset_id/dataset_name,             *)
(* modl_id/modl_name or metric_id/metric_name, version_info_list for the    *)
(* list of that kind; each of its entries has the version number, the       *)
(* hyperparameter definitions and the tasks of the version and, for a       *)
(* dataset, its files.  A field a record may lack is <<>> when absent.      *)
HyperparameterNames == {"lr"}

LearningRate ==
    [hyperparameter_name |-> "lr", hyperparameter_value |-> "0.01",
     hyperparameter_data_type |-> "float"]

(* an entry of the tasks of a version: an object, whose fields task_id,    *)
(* taskId, id and task_name may each be absent, or a plain task id          *)
TaskObject(task_id, id, task_name) ==
    [task_id |-> task_id, taskId |-> <<>>, id |-> id, task_name |-> task_name]

PlainTask(id) == [plain |-> id]

StaticTask == TaskObject(<<"1">>, <<>>, <<"static">>)

VersionInfo(number, hyperparameters, files, tasks) ==
    [version_number |-> number, hyperparameters |-> hyperparameters,
     tasks |-> Some(tasks), files |-> files]

DatasetFiles == <<"a.csv", "b.csv">>

CatalogItemWith(type, id, name, tasks) ==
    [id |-> id, name |-> name,
     version_info_list |->
        Some(IF type = "dataset"
             THEN <<VersionInfo("1", <<>>, DatasetFiles, tasks),
                    VersionInfo("2", <<>>, DatasetFiles, tasks)>>
             ELSE <<VersionInfo("1", <<LearningRate>>, <<>>, tasks),
                    VersionInfo("2", <<>>, <<>>, tasks)>>)]

CatalogItem(type, id, name) == CatalogItemWith(type, id, name, <<StaticTask>>)

(* the tasks of the backend (getTasks) as first loaded: task 1 with two     *)
(* versions, the newest first, and task 2 with none                         *)
Tasks ==
    <<[task_id |-> "1", task_name |-> "static",
       task_version_info_list |-> <<[version |-> [version_number |-> "2"]],
                                    [version |-> [version_number |-> "1"]]>>],
      [task_id |-> "2", task_name |-> "temporal", task_version_info_list |-> <<>>]>>

(* the catalogs as first loaded: one item of each kind *)
Catalog(type) ==
    CASE type = "dataset" -> {CatalogItem(type, "7", "Iris")}
      [] type = "model"   -> {CatalogItem(type, "3", "Net")}
      [] type = "metric"  -> {CatalogItem(type, "5", "F1")}
      [] OTHER            -> {}

Label(type) ==
    CASE type = "dataset"   -> "Dataset"
      [] type = "processor" -> "Processor"
      [] type = "model"     -> "Model"
      [] type = "metric"    -> "Metric"
      [] OTHER              -> type

getNodeTypeLabel(type) == Label(type)

getNodeTitle(type) == IF type \in Kinds THEN Label(type) ELSE "Node"

----------------------------------------------------------------------------
(* Numbers.  Canvas coordinates, the drag offset and the zoom scale are JS  *)
(* numbers that need not be integers; they are held as exact fractions      *)
(* <<n, d>> in lowest terms with d > 0.                                     *)

Abs(n) == IF n < 0 THEN -n ELSE n

RECURSIVE GCD(_, _)
GCD(a, b) == IF b = 0 THEN a ELSE GCD(b, a % b)

Q(n, d) ==
    LET g == GCD(Abs(n), Abs(d))
        sgn == IF d < 0 THEN -1 ELSE 1
    IN  <<(sgn * n) \div g, (sgn * d) \div g>>

QInt(n) == <<n, 1>>

(* a fraction plus an integer is in lowest terms as it stands *)
QPlus(a, k) == <<a[1] + k * a[2], a[2]>>

(* sums over the least common denominator and products reduced crosswise,  *)
(* so that the intermediate integers stay small                             *)
QAdd(a, b) ==
    LET g == GCD(a[2], b[2])
    IN  Q(a[1] * (b[2] \div g) + b[1] * (a[2] \div g), (a[2] \div g) * b[2])

QNeg(a) == <<-a[1], a[2]>>
QSub(a, b) == QAdd(a, QNeg(b))

QMul(a, b) ==
    LET g1 == GCD(Abs(a[1]), b[2])
        g2 == GCD(Abs(b[1]), a[2])
    IN  Q((a[1] \div g1) * (b[1] \div g2), (a[2] \div g2) * (b[2] \div g1))

QDiv(a, b) == QMul(a, Q(b[2], b[1]))

QLeq(a, b) ==
    LET g == GCD(a[2], b[2])
    IN  a[1] * (b[2] \div g) <= b[1] * (a[2] \div g)

(* Floating-point numbers: the fractions m * 2^e with a significand m of    *)
(* MantissaBits bits. Every arithmetic operation of the code yields the     *)
(* exact result rounded to the nearest such number, ties to the even        *)
(* significand (IEEE 754 round-to-nearest-even, exponent range unbounded).  *)
RECURSIVE Pow2(_)
Pow2(k) == IF k = 0 THEN 1 ELSE 2 * Pow2(k - 1)

(* num / den * 2^e with 2^(MantissaBits-1) <= num / den < 2^MantissaBits *)
RECURSIVE Normalized(_, _, _)
Normalized(num, den, e) ==
    IF num \div den >= Pow2(MantissaBits)
    THEN IF num % 2 = 0 THEN Normalized(num \div 2, den, e + 1)
                        ELSE Normalized(num, 2 * den, e + 1)
    ELSE IF num \div den < Pow2(MantissaBits - 1)
    THEN IF den % 2 = 0 THEN Normalized(num, den \div 2, e - 1)
                        ELSE Normalized(2 * num, den, e - 1)
    ELSE [num |-> num, den |-> den, e |-> e]

RoundTo(q) ==
    IF q[1] = 0 THEN QInt(0)
    ELSE LET sgn == IF q[1] < 0 THEN -1 ELSE 1
             nz == Normalized(Abs(q[1]), q[2], 0)
             m == nz.num \div nz.den
             r == nz.num % nz.den
             up == 2 * r > nz.den \/ (2 * r = nz.den /\ m % 2 = 1)
             sig == IF up THEN m + 1 ELSE m
         IN  IF nz.e >= 0 THEN QInt(sgn * sig * Pow2(nz.e))
             ELSE Q(sgn * sig, Pow2(-nz.e))

FAdd(a, b) == RoundTo(QAdd(a, b))
FSub(a, b) == RoundTo(QSub(a, b))
FMul(a, b) == RoundTo(QMul(a, b))
FDiv(a, b) == RoundTo(QDiv(a, b))

(* The zoom scale is a decimal fraction digits / 10^exp; digits holds the   *)
(* decimal digits of the numerator, least significant first, so that the    *)
(* products of many wheel events stay exact.                                *)
ScaleOne == [digits |-> <<1>>, exp |-> 0]    \* 1.0
ScaleMin == [digits |-> <<1>>, exp |-> 1]    \* 0.1
ScaleMax == [digits |-> <<3>>, exp |-> 0]    \* 3.0

RECURSIVE DigitsOf(_)
DigitsOf(n) == IF n = 0 THEN <<>> ELSE <<n % 10>> \o DigitsOf(n \div 10)

RECURSIVE TimesDigits(_, _, _)
TimesDigits(ds, m, carry) ==
    IF ds = <<>> THEN DigitsOf(carry)
    ELSE LET v == Head(ds) * m + carry
         IN  <<v % 10>> \o TimesDigits(Tail(ds), m, v \div 10)

(* sc * m / 10, for the wheel factors 0.9 = 9/10 and 1.1 = 11/10 *)
ScaleTimesTenths(sc, m) ==
    [digits |-> TimesDigits(sc.digits, m, 0), exp |-> sc.exp + 1]

(* sc < 0.1: the numerator is below 10^(exp - 1) *)
ScaleBelowMin(sc) == Len(sc.digits) < sc.exp

(* sc > 3.0: the numerator is above 3 * 10^exp *)
ScaleAboveMax(sc) ==
    LET len == Len(sc.digits) IN
    \/ len > sc.exp + 1
    \/ /\ len = sc.exp + 1
       /\ \/ sc.digits[len] > 3
          \/ /\ sc.digits[len] = 3
             /\ \E k \in 1..(len - 1) : sc.digits[k] # 0

(* the product as it is, without the clamp *)
UnclampedScale(sc) == sc

(* Math.max(0.1, Math.min(3.0, sc)) *)
ClampScale(sc) ==
    IF ScaleAboveMax(sc) THEN ScaleMax
    ELSE IF ScaleBelowMin(sc) THEN ScaleMin
    ELSE sc

RECURSIVE DigitsValue(_)
DigitsValue(ds) == IF ds = <<>> THEN 0 ELSE Head(ds) + 10 * DigitsValue(Tail(ds))

RECURSIVE Pow10(_)
Pow10(k) == IF k = 0 THEN 1 ELSE 10 * Pow10(k - 1)

(* the scale as a fraction, for the coordinate arithmetic *)
ScaleQ(sc) == Q(DigitsValue(sc.digits), Pow10(sc.exp))

----------------------------------------------------------------------------
(* Nodes and ports *)

Port(id, name, type) ==
    [id |-> id, name |-> name, type |-> type, x |-> QInt(0), y |-> QInt(0)]

getInputPorts(type) ==
    IF type \in {"processor", "model", "metric"}
    THEN <<Port("input-1", "Input", "input")>>
    ELSE <<>>

getOutputPorts(type) ==
    IF type \in {"dataset", "processor", "model"}
    THEN <<Port("output-1", "Output", "output")>>
    ELSE <<>>

(* updatePortPositions: every port of every node from its owner's position *)
PlacePorts(n) ==
    [n EXCEPT
        !.inputPorts  = [i \in DOMAIN n.inputPorts |->
                            [n.inputPorts[i] EXCEPT
                                !.x = n.x,
                                !.y = QPlus(QPlus(n.y, 20), (i - 1) * 30)]],
        !.outputPorts = [i \in DOMAIN n.outputPorts |->
                            [n.outputPorts[i] EXCEPT
                                !.x = QPlus(n.x, n.width),
                                !.y = QPlus(QPlus(n.y, 20), (i - 1) * 30)]]]

(* no recompute pass: every port stays where it is *)
keepPortPositions(ns) == ns

updatePortPositions(ns) == [i \in DOMAIN ns |-> PlacePorts(ns[i])]

(* Array.prototype.find on the id: the first node carrying it, or null *)
FindNode(ns, id) ==
    IF \E i \in DOMAIN ns : ns[i].id = id
    THEN Some(ns[CHOOSE i \in DOMAIN ns :
                    /\ ns[i].id = id
                    /\ \A j \in DOMAIN ns : ns[j].id = id => i <= j])
    ELSE Null

FindPort(ports, id) ==
    IF \E i \in DOMAIN ports : ports[i].id = id
    THEN Some(ports[CHOOSE i \in DOMAIN ports :
                    /\ ports[i].id = id
                    /\ \A j \in DOMAIN ports : ports[j].id = id => i <= j])
    ELSE Null

(* the bounding rectangle of the editor container *)
Rect == [left |-> 0, top |-> 0, width |-> 800, height |-> 600]

(* pointer positions (clientX, clientY) of the events *)
Pointers == {[x |-> 300, y |-> 200], [x |-> 150, y |-> 300], [x |-> 350, y |-> 300]}

(* event.button: primary, middle, secondary *)
Buttons == {0, 1, 2}

(* event.deltaY of the wheel events *)
DeltaYs == {-100, 100}

(* (screen - rect origin - canvasOffset) / canvasScale *)
ScreenToCanvas(p, off, sc) ==
    LET s == ScaleQ(sc)
    IN  [x |-> QDiv(QInt(p.x - Rect.left - off.x), s),
         y |-> QDiv(QInt(p.y - Rect.top - off.y), s)]

----------------------------------------------------------------------------
(* GraphModel operations *)

(* port objects taken from one table shared by all nodes *)
SharedPorts(ps, ref) ==
    [k \in DOMAIN ps |->
        [id |-> ps[k].id, name |-> ps[k].name, type |-> ps[k].type,
         x |-> ps[k].x, y |-> ps[k].y, obj |-> <<0, ps[k].type, k>>]]

(* the port objects one call of getInputPorts or getOutputPorts allocates:  *)
(* obj is the identity of each object, owned by the node object ref        *)
FreshPorts(ps, ref) ==
    [k \in DOMAIN ps |->
        [id |-> ps[k].id, name |-> ps[k].name, type |-> ps[k].type,
         x |-> ps[k].x, y |-> ps[k].y, obj |-> <<ref, ps[k].type, k>>]]

NewNode(ref, t, type, x, y) ==
    [ref |-> ref, id |-> t, type |-> type, x |-> x, y |-> y,
     width |-> 200, height |-> 140, title |-> getNodeTitle(type), data |-> <<>>,
     inputPorts |-> FreshPorts(getInputPorts(type), ref),
     outputPorts |-> FreshPorts(getOutputPorts(type), ref),
     selected |-> FALSE]

(* createNode with explicit coordinates: push, then recompute the ports *)
createNodeAt(ns, ref, t, type, x, y) ==
    updatePortPositions(Append(ns, NewNode(ref, t, type, x, y)))

SameTuple(e, sn, sp, tn, tp) ==
    /\ e.sourceNodeId = sn
    /\ e.sourcePortId = sp
    /\ e.targetNodeId = tn
    /\ e.targetPortId = tp

(* createEdge without the test for an existing edge *)
createEdgeUnchecked(es, t, sn, sp, tn, tp) ==
    Append(es, [id |-> t, sourceNodeId |-> sn, sourcePortId |-> sp,
                targetNodeId |-> tn, targetPortId |-> tp])

EdgeExists(es, sn, sp, tn, tp) ==
    \E k \in DOMAIN es : SameTuple(es[k], sn, sp, tn, tp)

(* createEdge: push unless an edge with the same four references exists *)
createEdge(es, t, sn, sp, tn, tp) ==
    IF EdgeExists(es, sn, sp, tn, tp)
    THEN es
    ELSE Append(es, [id |-> t, sourceNodeId |-> sn, sourcePortId |-> sp,
                     targetNodeId |-> tn, targetPortId |-> tp])

(* deleteNode: filter the edges, then the nodes, on the node's id *)
EdgesAfterDeleteNode(es, id) ==
    LET Keep(e) == e.sourceNodeId # id /\ e.targetNodeId # id
    IN  SelectSeq(es, Keep)

NodesAfterDeleteNode(ns, id) ==
    LET Keep(n) == n.id # id
    IN  SelectSeq(ns, Keep)

(* deleteEdge: filter on the edge's id *)
EdgesAfterDeleteEdge(es, id) ==
    LET Keep(e) == e.id # id
    IN  SelectSeq(es, Keep)

(* isValidConnection with the model rule copied from the processor rule *)
isValidConnectionModelAsProcessor(sourceType, targetType) ==
    IF sourceType = "dataset"
    THEN targetType = "processor" \/ targetType = "model"
    ELSE IF sourceType = "model" \/ sourceType = "processor"
    THEN targetType = "processor" \/ targetType = "model" \/ targetType = "metric"
    ELSE FALSE

(* isValidConnection *)
isValidConnection(sourceType, targetType) ==
    IF sourceType = "dataset"
    THEN targetType = "processor" \/ targetType = "model"
    ELSE IF sourceType = "model"
    THEN targetType = "processor" \/ targetType = "metric"
    ELSE IF sourceType = "processor"
    THEN targetType = "processor" \/ targetType = "model" \/ targetType = "metric"
    ELSE FALSE

----------------------------------------------------------------------------
(* History records *)

(* What the last handler run showed: alert, the labels of the message it   *)
(* raised; threw, a TypeError ended it; dup, a createEdge call it made      *)
(* found its tuple present; checked, <<source type, target type, verdict>>  *)
(* of its isValidConnection call                                            *)
Outcome(r) ==
    [alert |-> r.alert, threw |-> r.threw, dup |-> r.dup, checked |-> r.checked]

Plain == [alert |-> <<>>, threw |-> FALSE, dup |-> FALSE, checked |-> <<>>]

UserCreated == nextRef - 1 - (IF timer = "examples" THEN 0 ELSE 4)

----------------------------------------------------------------------------
(* Initial state: the component after construction and ngOnInit *)

Init ==
    /\ nodes = <<>>
    /\ edges = <<>>
    /\ selectedNode = Null
    /\ connectingPort = Null
    /\ tempEdgeEnd = Null
    /\ showNodeMenu = FALSE
    /\ contextMenuCanvasPos = [x |-> QInt(0), y |-> QInt(0)]
    /\ canvasOffset = [x |-> 0, y |-> 0]
    /\ canvasScale = ScaleOne
    /\ now = 0
    /\ nextRef = 1
    /\ timer = "examples"
    /\ isPanning = FALSE
    /\ panStart = [x |-> 0, y |-> 0]
    /\ draggingNode = Null
    /\ dragOffset = [x |-> QInt(0), y |-> QInt(0)]
    /\ lastClickTime = 0
    /\ lastClickedNode = Null
    /\ showDetailPanel = FALSE
    /\ detailNode = Null
    /\ selectedId = ""
    /\ selectedVersion = ""
    /\ availableDatasets = Catalog("dataset")
    /\ availableModels = Catalog("model")
    /\ availableMetrics = Catalog("metric")
    /\ selectedDataFile = ""
    /\ selectedGroundTruthFile = ""
    /\ availableHyperparameters = <<>>
    /\ hyperparameterSets = <<>>
    /\ parameters = <<>>
    /\ availableTasks = Tasks
    /\ selectedTaskId = ""
    /\ selectedTaskType = ""
    /\ selectedTaskVersion = ""
    /\ taskVersions = <<>>
    /\ taskTypeChange = <<>>
    /\ startedOn = 0
    /\ ev = Plain
    /\ steps = 0

----------------------------------------------------------------------------
(* The clock *)

(* the values Date.now() can return to a handler that runs when the last    *)
(* value read was t: the clock never runs backwards                         *)
ClockFrom(t) == t..((t \div DoubleClickWindow) * DoubleClickWindow + MaxTime)

(* the value Date.now() returns after the user has paused for the length of *)
(* the double-click window                                                  *)
AfterPause(t) ==
    IF t \div DoubleClickWindow < MaxTime THEN {t + DoubleClickWindow} ELSE {}

----------------------------------------------------------------------------
(* Startup timers *)

(* addExampleNodes, lines 240-253: four createNode calls; the clock may or  *)
(* may not advance between them                                             *)
ExampleNodes(ns, ref, t1, t2, t3, t4) ==
    createNodeAt(
        createNodeAt(
            createNodeAt(
                createNodeAt(ns, ref, t1, "dataset", QInt(400 - 300), QInt(300 - 50)),
                ref + 1, t2, "processor", QInt(400 - 100), QInt(300 - 50)),
            ref + 2, t3, "model", QInt(400 + 100), QInt(300 - 50)),
        ref + 3, t4, "metric", QInt(400 + 300), QInt(300 - 50))

AddExampleNodes ==
    /\ timer = "examples"
    /\ \E t1, t2, t3, t4 \in ClockFrom(now) :
          /\ t1 <= t2 /\ t2 <= t3 /\ t3 <= t4
          /\ nodes' = ExampleNodes(nodes, nextRef, t1, t2, t3, t4)
          /\ now' = t4
    /\ nextRef' = nextRef + 4
    /\ showNodeMenu' = FALSE
    /\ selectedNode' = Some(nextRef + 3)
    /\ timer' = "connect"
    /\ ev' = Plain
    /\ UNCHANGED <<edges, connectingPort, tempEdgeEnd, contextMenuCanvasPos,
                   canvasOffset, canvasScale, startedOn>>
    /\ UNCHANGED <<pointerVars, panelVars>>

(* one createEdge call of the auto-connect callback; evaluating             *)
(* outputPorts[0].id or inputPorts[0].id of a node without such a port      *)
(* raises a TypeError                                                       *)
LinkThrows(ns, i) == Len(ns[i].outputPorts) = 0 \/ Len(ns[i + 1].inputPorts) = 0

LinkDup(ns, es, i) ==
    EdgeExists(es, ns[i].id, ns[i].outputPorts[1].id, ns[i + 1].id, ns[i + 1].inputPorts[1].id)

Link(ns, es, i, t) ==
    createEdge(es, t, ns[i].id, ns[i].outputPorts[1].id,
                      ns[i + 1].id, ns[i + 1].inputPorts[1].id)

(* the callback at lines 256-268: the edges it leaves and whether it threw *)
AutoConnectResult(ns, es, t1, t2, t3) ==
    IF Len(ns) < 4 THEN [edges |-> es, threw |-> FALSE, dup |-> FALSE]
    ELSE IF LinkThrows(ns, 1) THEN [edges |-> es, threw |-> TRUE, dup |-> FALSE]
    ELSE LET e1 == Link(ns, es, 1, t1)
             d1 == LinkDup(ns, es, 1) IN
         IF LinkThrows(ns, 2) THEN [edges |-> e1, threw |-> TRUE, dup |-> d1]
         ELSE LET e2 == Link(ns, e1, 2, t2)
                  d2 == d1 \/ LinkDup(ns, e1, 2) IN
              IF LinkThrows(ns, 3) THEN [edges |-> e2, threw |-> TRUE, dup |-> d2]
              ELSE [edges |-> Link(ns, e2, 3, t3), threw |-> FALSE,
                    dup |-> d2 \/ LinkDup(ns, e2, 3)]

AutoConnect ==
    /\ timer = "connect"
    /\ \E t1, t2, t3 \in ClockFrom(now) :
          /\ t1 <= t2 /\ t2 <= t3
          /\ LET r == AutoConnectResult(nodes, edges, t1, t2, t3) IN
                /\ edges' = r.edges
                /\ ev' = [Plain EXCEPT !.threw = r.threw, !.dup = r.dup]
                \* Date.now() is read only by a createEdge call that pushes an edge
                /\ now' = IF Len(r.edges) > Len(edges)
                          THEN r.edges[Len(r.edges)].id ELSE now
    /\ timer' = "none"
    /\ UNCHANGED <<nodes, selectedNode, connectingPort, tempEdgeEnd, showNodeMenu,
                   contextMenuCanvasPos, canvasOffset, canvasScale, nextRef, startedOn>>
    /\ UNCHANGED <<pointerVars, panelVars>>

----------------------------------------------------------------------------
(* Node creation menu *)

OnCanvasContextMenu(p) ==
    /\ contextMenuCanvasPos' = ScreenToCanvas(p, canvasOffset, canvasScale)
    /\ showNodeMenu' = TRUE
    /\ ev' = Plain
    /\ UNCHANGED <<nodes, edges, selectedNode, connectingPort, tempEdgeEnd, canvasOffset,
                   canvasScale, now, nextRef, timer, startedOn>>
    /\ UNCHANGED <<pointerVars, panelVars>>

(* document click: closes the menu unless the click is inside it *)
OnDocumentClick(insideMenu) ==
    /\ showNodeMenu' = IF showNodeMenu /\ ~insideMenu THEN FALSE ELSE showNodeMenu
    /\ ev' = Plain
    /\ UNCHANGED <<nodes, edges, selectedNode, connectingPort, tempEdgeEnd,
                   contextMenuCanvasPos, canvasOffset, canvasScale, now, nextRef, timer,
                   startedOn>>
    /\ UNCHANGED <<pointerVars, panelVars>>

(* the node put at the recorded point itself *)
SpawnPositionAtPoint ==
    IF showNodeMenu
    THEN contextMenuCanvasPos
    ELSE [x |-> QSub(QDiv(QSub(Q(Rect.width, 2), QInt(canvasOffset.x)),
                          ScaleQ(canvasScale)), QInt(100)),
          y |-> QSub(QDiv(QSub(Q(Rect.height, 2), QInt(canvasOffset.y)),
                          ScaleQ(canvasScale)), QInt(50))]

(* createNode without coordinates, lines 998-1008: where the node is put *)
SpawnPosition ==
    IF showNodeMenu
    THEN [x |-> QSub(contextMenuCanvasPos.x, QInt(100)),
          y |-> QSub(contextMenuCanvasPos.y, QInt(50))]
    ELSE [x |-> QSub(QDiv(QSub(Q(Rect.width, 2), QInt(canvasOffset.x)),
                          ScaleQ(canvasScale)), QInt(100)),
          y |-> QSub(QDiv(QSub(Q(Rect.height, 2), QInt(canvasOffset.y)),
                          ScaleQ(canvasScale)), QInt(50))]

(* createNode(type) called from the menu *)
CreateNode(type) ==
    /\ UserCreated < MaxUserNodes
    /\ \E t \in ClockFrom(now) :
          /\ nodes' = createNodeAt(nodes, nextRef, t, type, SpawnPosition.x, SpawnPosition.y)
          /\ now' = t
    /\ nextRef' = nextRef + 1
    /\ showNodeMenu' = FALSE
    /\ selectedNode' = Some(nextRef)
    /\ ev' = Plain
    /\ UNCHANGED <<edges, connectingPort, tempEdgeEnd, contextMenuCanvasPos, canvasOffset,
                   canvasScale, timer, startedOn>>
    /\ UNCHANGED <<pointerVars, panelVars>>

----------------------------------------------------------------------------
(* Deletion *)

DeleteNode(i) ==
    /\ i \in DOMAIN nodes
    /\ edges' = EdgesAfterDeleteNode(edges, nodes[i].id)
    /\ nodes' = NodesAfterDeleteNode(nodes, nodes[i].id)
    /\ selectedNode' = Null
    /\ ev' = Plain
    /\ UNCHANGED <<connectingPort, tempEdgeEnd, showNodeMenu, contextMenuCanvasPos,
                   canvasOffset, canvasScale, now, nextRef, timer, startedOn>>
    /\ UNCHANGED <<pointerVars, panelVars>>

DeleteEdge(j) ==
    /\ j \in DOMAIN edges
    /\ edges' = EdgesAfterDeleteEdge(edges, edges[j].id)
    /\ ev' = Plain
    /\ UNCHANGED <<nodes, selectedNode, connectingPort, tempEdgeEnd, showNodeMenu,
                   contextMenuCanvasPos, canvasOffset, canvasScale, now, nextRef, timer,
                   startedOn>>
    /\ UNCHANGED <<pointerVars, panelVars>>

----------------------------------------------------------------------------
(* Connect interaction *)

PortsOf(n) ==
    {n.inputPorts[k] : k \in DOMAIN n.inputPorts}
        \cup {n.outputPorts[k] : k \in DOMAIN n.outputPorts}

(* onPortMouseDown(event, node, port) at time t with this.connectingPort =  *)
(* cp and this.tempEdgeEnd = te: the fields it leaves, the alert it raises  *)
(* (the two labels of the message) and whether it threw                     *)
PortDown(ns, es, cp, te, t, node, port) ==
    IF ~IsNull(cp)
    THEN IF The(cp).type # port.type /\ The(cp).nodeId # node.id
         THEN LET sourceNode == FindNode(ns, The(cp).nodeId) IN
              IF IsNull(sourceNode)
              THEN \* sourceNode!.type of undefined: TypeError before the fields are cleared
                   [Plain EXCEPT !.threw = TRUE] @@
                   [edges |-> es, connectingPort |-> cp, tempEdgeEnd |-> te]
              ELSE LET ok == isValidConnection(The(sourceNode).type, node.type)
                       sn == IF port.type = "input" THEN The(cp).nodeId ELSE node.id
                       sp == IF port.type = "input" THEN The(cp).portId ELSE port.id
                       tn == IF port.type = "input" THEN node.id ELSE The(cp).nodeId
                       tp == IF port.type = "input" THEN port.id ELSE The(cp).portId
                       checked == <<The(sourceNode).type, node.type, ok>> IN
                   IF ok
                   THEN [Plain EXCEPT !.checked = checked,
                                      !.dup = EdgeExists(es, sn, sp, tn, tp)] @@
                        [edges |-> createEdge(es, t, sn, sp, tn, tp),
                         connectingPort |-> Null, tempEdgeEnd |-> Null]
                   ELSE [Plain EXCEPT !.checked = checked,
                                      !.alert = <<getNodeTypeLabel(The(sourceNode).type),
                                                  getNodeTypeLabel(node.type)>>] @@
                        [edges |-> es, connectingPort |-> Null, tempEdgeEnd |-> Null]
         ELSE Plain @@ [edges |-> es, connectingPort |-> Null, tempEdgeEnd |-> Null]
    ELSE Plain @@
         [edges |-> es,
          connectingPort |-> Some([nodeId |-> node.id, portId |-> port.id,
                                   type |-> port.type]),
          tempEdgeEnd |-> Some([x |-> port.x, y |-> port.y])]

OnPortMouseDown(i, port) ==
    /\ i \in DOMAIN nodes
    /\ port \in PortsOf(nodes[i])
    /\ IsNull(connectingPort) => Len(edges) < MaxEdges
    /\ \E t \in ClockFrom(now) :
       LET r == PortDown(nodes, edges, connectingPort, tempEdgeEnd, t, nodes[i], port) IN
          \* Date.now() is read only by a createEdge call that pushes an edge
          /\ now' = IF Len(r.edges) > Len(edges) THEN t ELSE now
          /\ (Len(r.edges) = Len(edges) => t = now)
          /\ edges' = r.edges
          /\ connectingPort' = r.connectingPort
          /\ tempEdgeEnd' = r.tempEdgeEnd
          /\ startedOn' = IF IsNull(connectingPort) THEN nodes[i].ref
                          ELSE IF r.threw THEN startedOn ELSE 0
          /\ ev' = Outcome(r)
    /\ UNCHANGED <<nodes, selectedNode, showNodeMenu, contextMenuCanvasPos, canvasOffset,
                   canvasScale, nextRef, timer>>
    /\ UNCHANGED <<pointerVars, panelVars>>

(* click handler of the host element: clears when the target is the canvas *)
(* a click on the empty canvas that also empties the edge list *)
OnCanvasClickDropsEdges(onCanvas) ==
    /\ IF onCanvas
       THEN /\ selectedNode' = Null
            /\ connectingPort' = Null
            /\ tempEdgeEnd' = Null
            /\ startedOn' = 0
            /\ edges' = <<>>
            /\ ev' = Plain
       ELSE UNCHANGED <<selectedNode, connectingPort, tempEdgeEnd, startedOn, edges, ev>>
    /\ UNCHANGED <<nodes, showNodeMenu, contextMenuCanvasPos, canvasOffset,
                   canvasScale, now, nextRef, timer>>
    /\ UNCHANGED <<pointerVars, panelVars>>

OnCanvasClick(onCanvas) ==
    /\ IF onCanvas
       THEN /\ selectedNode' = Null
            /\ connectingPort' = Null
            /\ tempEdgeEnd' = Null
            /\ startedOn' = 0
            /\ ev' = Plain
       ELSE UNCHANGED <<selectedNode, connectingPort, tempEdgeEnd, startedOn, ev>>
    /\ UNCHANGED <<nodes, edges, showNodeMenu, contextMenuCanvasPos, canvasOffset,
                   canvasScale, now, nextRef, timer>>
    /\ UNCHANGED <<pointerVars, panelVars>>

----------------------------------------------------------------------------
(* Pointer interaction: drag, double-click, pan, zoom *)

(* The catalog the component holds for a kind (availableDatasets,           *)
(* availableModels, availableMetrics); no catalog exists for processors    *)
Available(type) ==
    CASE type = "dataset" -> availableDatasets
      [] type = "model"   -> availableModels
      [] type = "metric"  -> availableMetrics
      [] OTHER            -> {}

FormIds == {"3", "5", "7"}
FormVersions == {"1", "2"}

(* `${newTitle} (v${this.selectedVersion})` *)
ConfiguredTitle(name, version) ==
    CASE name = "Iris" /\ version = "1" -> "Iris (v1)"
      [] name = "Iris" /\ version = "2" -> "Iris (v2)"
      [] name = "Net"  /\ version = "1" -> "Net (v1)"
      [] name = "Net"  /\ version = "2" -> "Net (v2)"
      [] name = "F1"   /\ version = "1" -> "F1 (v1)"
      [] name = "F1"   /\ version = "2" -> "F1 (v2)"
      [] OTHER                          -> name

(* availableX.find(d => String(d.X_id) === id) *)
FindItem(type, id) ==
    LET found == {it \in Available(type) : it.id = id}
    IN  IF found = {} THEN Null ELSE Some(CHOOSE it \in found : TRUE)

(* the hyperparameter definitions the catalog has for a version of an      *)
(* item, lines 579-607: none when the item or the version is not there     *)
HyperparametersOf(type, id, version) ==
    LET item == FindItem(type, id)
    IN  IF IsNull(item) \/ type \notin {"model", "metric"} \/ id = "" \/ version = ""
        THEN <<>>
        ELSE LET list == The(The(item).version_info_list)
                 at == {k \in DOMAIN list : list[k].version_number = version}
             IN  IF at = {} THEN <<>>
                 ELSE list[CHOOSE k \in at : \A l \in at : k <= l].hyperparameters

(* loadExistingHyperparameterSets: the sets of the payload, each copied one *)
(* level deep ({...set, id, collapsed}), so that a copy holds the same      *)
(* `parameters' object as the stored set.  A set is [id, parameters], the   *)
(* latter a reference into the heap; its collapsed flag is left out.  A     *)
(* stored set has the id Date.now() gave it, which `set.id ||' keeps.       *)
loadExistingHyperparameterSets(data) ==
    IF ~IsNull(data) /\ ~IsNull(The(data).hyperparameter_sets)
    THEN [k \in DOMAIN The(The(data).hyperparameter_sets) |->
             [id |-> The(The(data).hyperparameter_sets)[k].id,
              parameters |-> The(The(data).hyperparameter_sets)[k].parameters]]
    ELSE <<>>

(* the form fields loadNodeDetails leaves for node n: those of its payload *)
(* if it has one (lines 391-411 with populateXFields and                   *)
(* loadHyperparameters), empty otherwise                                   *)
loadNodeDetails(n) ==
    LET cleared == [selectedId |-> "", selectedVersion |-> "",
                    selectedDataFile |-> "", selectedGroundTruthFile |-> "",
                    availableHyperparameters |-> <<>>, hyperparameterSets |-> <<>>]
    IN  IF ~IsNull(n.data) /\ n.type \in {"dataset", "model", "metric"}
           /\ The(n.data).id # ""
        THEN LET d == The(n.data)
                 inCatalog == ~IsNull(FindItem(n.type, d.id))
                 mapped == inCatalog /\ n.type = "dataset" /\ ~IsNull(d.file_mappings)
             IN  [selectedId |-> d.id,
                  selectedVersion |-> d.selected_version,
                  selectedDataFile |->
                      IF mapped THEN The(d.file_mappings).data_file ELSE "",
                  selectedGroundTruthFile |->
                      IF mapped THEN The(d.file_mappings).ground_truth_file ELSE "",
                  availableHyperparameters |->
                      HyperparametersOf(n.type, d.id, d.selected_version),
                  hyperparameterSets |->
                      IF n.type = "dataset" \/ (d.selected_version = "" /\ ~inCatalog)
                      THEN <<>>
                      ELSE loadExistingHyperparameterSets(n.data)]
        ELSE cleared

(* the form fields as loadNodeDetails(n) leaves them *)
FormLoaded(n) ==
    /\ selectedId' = loadNodeDetails(n).selectedId
    /\ selectedVersion' = loadNodeDetails(n).selectedVersion
    /\ selectedDataFile' = loadNodeDetails(n).selectedDataFile
    /\ selectedGroundTruthFile' = loadNodeDetails(n).selectedGroundTruthFile
    /\ availableHyperparameters' = loadNodeDetails(n).availableHyperparameters
    /\ hyperparameterSets' = loadNodeDetails(n).hyperparameterSets
    /\ UNCHANGED <<availableDatasets, availableModels, availableMetrics, parameters>>
    /\ UNCHANGED contextVars

(* the payload onApplyConfiguration builds, lines 736-776: a copy of the   *)
(* catalog item with the chosen id, the chosen version, the file mapping   *)
(* of a dataset when a file is chosen and the form's hyperparameter sets   *)
(* (the same objects) when there are any; without such an item in the      *)
(* catalog of the node's kind, the empty object, or one that has the       *)
(* hyperparameter sets only                                                *)
ItemData(type, id, version) ==
    LET item == FindItem(type, id)
        sets == IF hyperparameterSets # <<>> THEN Some(hyperparameterSets) ELSE Null
    IN  IF IsNull(item)
        THEN IF IsNull(sets) THEN <<>>
             ELSE <<[id |-> "", name |-> "", version_info_list |-> Null,
                     selected_version |-> "", file_mappings |-> Null,
                     hyperparameter_sets |-> sets]>>
        ELSE <<[id |-> The(item).id, name |-> The(item).name,
                version_info_list |-> The(item).version_info_list,
                selected_version |-> version,
                file_mappings |->
                    IF type = "dataset"
                       /\ (selectedDataFile # "" \/ selectedGroundTruthFile # "")
                    THEN Some([data_file |-> selectedDataFile,
                               ground_truth_file |-> selectedGroundTruthFile])
                    ELSE Null,
                hyperparameter_sets |-> sets]>>

(* the payload and title onApplyConfiguration gives node n; the title is   *)
(* the old one when the payload has no name                                *)
Configured(n, id, version) ==
    LET itemData == ItemData(n.type, id, version)
    IN  IF IsNull(itemData) \/ The(itemData).name = ""
        THEN [n EXCEPT !.data = itemData]
        ELSE [n EXCEPT !.data = itemData,
                       !.title = ConfiguredTitle(The(itemData).name, version)]

(* the kind and the payload of the node being configured; the model keeps  *)
(* no object that has left the graph, and gives "" and null for it         *)
DetailNodeType ==
    LET at == {k \in DOMAIN nodes : Some(nodes[k].ref) = detailNode}
    IN  IF at = {} THEN "" ELSE nodes[CHOOSE k \in at : TRUE].type

DetailNodeData ==
    LET at == {k \in DOMAIN nodes : Some(nodes[k].ref) = detailNode}
    IN  IF at = {} THEN Null ELSE nodes[CHOOSE k \in at : TRUE].data

(* the form: the user picks an id (onIdSelect clears the version), then a  *)
(* version                                                                 *)
OnIdSelect(id) ==
    /\ showDetailPanel
    /\ selectedId' = id
    /\ selectedVersion' = ""
    \* clearInfoFields()
    /\ selectedDataFile' = ""
    /\ selectedGroundTruthFile' = ""
    /\ hyperparameterSets' = <<>>
    /\ availableHyperparameters' = <<>>
    /\ ev' = Plain
    /\ UNCHANGED <<nodes, edges, selectedNode, connectingPort, tempEdgeEnd, showNodeMenu,
                   contextMenuCanvasPos, canvasOffset, canvasScale, now, nextRef, timer,
                   pointerVars, showDetailPanel, detailNode, startedOn>>
    /\ UNCHANGED contextVars
    /\ UNCHANGED <<availableDatasets, availableModels, availableMetrics, parameters>>

(* onVersionSelect, lines 548-569: for a model or a metric found in the    *)
(* catalog, the definitions of the version are loaded and the sets are     *)
(* loaded again from the payload of the node                               *)
OnVersionSelect(version) ==
    /\ showDetailPanel
    /\ selectedVersion' = version
    /\ IF /\ DetailNodeType \in {"model", "metric"}
          /\ ~IsNull(FindItem(DetailNodeType, selectedId))
       THEN /\ availableHyperparameters' =
                  HyperparametersOf(DetailNodeType, selectedId, version)
            /\ hyperparameterSets' = loadExistingHyperparameterSets(DetailNodeData)
       ELSE UNCHANGED <<availableHyperparameters, hyperparameterSets>>
    /\ ev' = Plain
    /\ UNCHANGED <<nodes, edges, selectedNode, connectingPort, tempEdgeEnd, showNodeMenu,
                   contextMenuCanvasPos, canvasOffset, canvasScale, now, nextRef, timer,
                   pointerVars, showDetailPanel, detailNode, selectedId, startedOn>>
    /\ UNCHANGED contextVars
    /\ UNCHANGED <<availableDatasets, availableModels, availableMetrics, parameters,
                   selectedDataFile, selectedGroundTruthFile>>

(* the version not asked for *)
OnApplyConfigurationWithoutVersion ==
    /\ showDetailPanel
    /\ IF IsNull(detailNode) \/ selectedId = ""
       THEN /\ ev' = [Plain EXCEPT !.alert = <<"Please select an ID and Version">>]
            /\ UNCHANGED <<nodes, showDetailPanel, detailNode>>
       ELSE /\ nodes' = [k \in DOMAIN nodes |->
                            IF nodes[k].ref = The(detailNode)
                            THEN Configured(nodes[k], selectedId, selectedVersion)
                            ELSE nodes[k]]
            \* closeDetailPanel()
            /\ showDetailPanel' = FALSE
            /\ detailNode' = Null
            /\ ev' = Plain
    /\ UNCHANGED <<edges, selectedNode, connectingPort, tempEdgeEnd, showNodeMenu,
                   contextMenuCanvasPos, canvasOffset, canvasScale, now, nextRef, timer,
                   pointerVars, selectedId, selectedVersion, startedOn>>
    /\ UNCHANGED contextVars
    /\ UNCHANGED formVars

OnApplyConfiguration ==
    /\ showDetailPanel
    /\ IF IsNull(detailNode) \/ selectedId = "" \/ selectedVersion = ""
       THEN /\ ev' = [Plain EXCEPT !.alert = <<"Please select an ID and Version">>]
            /\ UNCHANGED <<nodes, showDetailPanel, detailNode>>
       ELSE /\ nodes' = [k \in DOMAIN nodes |->
                            IF nodes[k].ref = The(detailNode)
                            THEN Configured(nodes[k], selectedId, selectedVersion)
                            ELSE nodes[k]]
            \* closeDetailPanel()
            /\ showDetailPanel' = FALSE
            /\ detailNode' = Null
            /\ ev' = Plain
    /\ UNCHANGED <<edges, selectedNode, connectingPort, tempEdgeEnd, showNodeMenu,
                   contextMenuCanvasPos, canvasOffset, canvasScale, now, nextRef, timer,
                   pointerVars, selectedId, selectedVersion, startedOn>>
    /\ UNCHANGED contextVars
    /\ UNCHANGED formVars

CloseDetailPanel ==
    /\ showDetailPanel
    /\ showDetailPanel' = FALSE
    /\ detailNode' = Null
    /\ ev' = Plain
    /\ UNCHANGED <<nodes, edges, selectedNode, connectingPort, tempEdgeEnd, showNodeMenu,
                   contextMenuCanvasPos, canvasOffset, canvasScale, now, nextRef, timer,
                   pointerVars, selectedId, selectedVersion, startedOn>>
    /\ UNCHANGED contextVars
    /\ UNCHANGED formVars

(* The hyperparameter sets of the form.  The section of the form that      *)
(* holds them is shown while the chosen version has hyperparameter         *)
(* definitions (showHyperparameterSection).                                *)
FindSet(setId) ==
    LET at == {k \in DOMAIN hyperparameterSets : hyperparameterSets[k].id = setId}
    IN  IF at = {} THEN Null ELSE Some(CHOOSE k \in at : \A l \in at : k <= l)

FindParameter(parameterName) ==
    LET at == {k \in DOMAIN availableHyperparameters :
                  availableHyperparameters[k].hyperparameter_name = parameterName}
    IN  IF at = {} THEN Null
        ELSE Some(availableHyperparameters[CHOOSE k \in at : \A l \in at : k <= l])

HyperparameterValues == {"0.1", "0.5"}

(* addHyperparameterSet: a new set with a new, empty `parameters' object *)
AddHyperparameterSet ==
    /\ showDetailPanel
    /\ availableHyperparameters # <<>>
    /\ Len(parameters) < MaxSets
    /\ \E t \in ClockFrom(now) :
          /\ now' = t
          /\ hyperparameterSets' =
                Append(hyperparameterSets, [id |-> t, parameters |-> Len(parameters) + 1])
    /\ parameters' = Append(parameters, [name \in HyperparameterNames |-> Null])
    /\ ev' = Plain
    /\ UNCHANGED <<nodes, edges, selectedNode, connectingPort, tempEdgeEnd, showNodeMenu,
                   contextMenuCanvasPos, canvasOffset, canvasScale, nextRef, timer,
                   pointerVars, showDetailPanel, detailNode, selectedId, selectedVersion,
                   startedOn>>
    /\ UNCHANGED contextVars
    /\ UNCHANGED <<availableDatasets, availableModels, availableMetrics, selectedDataFile,
                   selectedGroundTruthFile, availableHyperparameters>>

(* removeHyperparameterSet: a new array without the sets of that id *)
RemoveHyperparameterSet(setId) ==
    /\ showDetailPanel
    /\ availableHyperparameters # <<>>
    /\ ~IsNull(FindSet(setId))
    /\ hyperparameterSets' = SelectSeq(hyperparameterSets, LAMBDA set : set.id # setId)
    /\ ev' = Plain
    /\ UNCHANGED <<nodes, edges, selectedNode, connectingPort, tempEdgeEnd, showNodeMenu,
                   contextMenuCanvasPos, canvasOffset, canvasScale, now, nextRef, timer,
                   pointerVars, showDetailPanel, detailNode, selectedId, selectedVersion,
                   startedOn>>
    /\ UNCHANGED contextVars
    /\ UNCHANGED <<availableDatasets, availableModels, availableMetrics, selectedDataFile,
                   selectedGroundTruthFile, availableHyperparameters, parameters>>

(* updateHyperparameterValue: set.parameters[parameterName] = {value,      *)
(* data_type}, an assignment into the `parameters' object of the set       *)
UpdateHyperparameterValue(setId, parameterName, value) ==
    /\ showDetailPanel
    /\ availableHyperparameters # <<>>
    /\ IF ~IsNull(FindSet(setId)) /\ ~IsNull(FindParameter(parameterName))
       THEN parameters' =
               [parameters EXCEPT
                   ![hyperparameterSets[The(FindSet(setId))].parameters][parameterName] =
                       Some([value |-> value,
                             data_type |->
                                 The(FindParameter(parameterName)).hyperparameter_data_type])]
       ELSE UNCHANGED parameters
    /\ ev' = Plain
    /\ UNCHANGED <<nodes, edges, selectedNode, connectingPort, tempEdgeEnd, showNodeMenu,
                   contextMenuCanvasPos, canvasOffset, canvasScale, now, nextRef, timer,
                   pointerVars, showDetailPanel, detailNode, selectedId, selectedVersion,
                   startedOn>>
    /\ UNCHANGED contextVars
    /\ UNCHANGED <<availableDatasets, availableModels, availableMetrics, selectedDataFile,
                   selectedGroundTruthFile, availableHyperparameters, hyperparameterSets>>

(* resetHyperparameterToDefault: the value of the entry, or a new entry,   *)
(* set to the default of the definition                                    *)
ResetHyperparameterToDefault(setId, paramName) ==
    /\ showDetailPanel
    /\ availableHyperparameters # <<>>
    /\ IF ~IsNull(FindSet(setId)) /\ ~IsNull(FindParameter(paramName))
       THEN LET ref == hyperparameterSets[The(FindSet(setId))].parameters
                param == The(FindParameter(paramName))
            IN  parameters' =
                   [parameters EXCEPT ![ref][paramName] =
                       IF ~IsNull(parameters[ref][paramName])
                       THEN Some([The(parameters[ref][paramName]) EXCEPT
                                     !.value = param.hyperparameter_value])
                       ELSE Some([value |-> param.hyperparameter_value,
                                  data_type |-> param.hyperparameter_data_type])]
       ELSE UNCHANGED parameters
    /\ ev' = Plain
    /\ UNCHANGED <<nodes, edges, selectedNode, connectingPort, tempEdgeEnd, showNodeMenu,
                   contextMenuCanvasPos, canvasOffset, canvasScale, now, nextRef, timer,
                   pointerVars, showDetailPanel, detailNode, selectedId, selectedVersion,
                   startedOn>>
    /\ UNCHANGED contextVars
    /\ UNCHANGED <<availableDatasets, availableModels, availableMetrics, selectedDataFile,
                   selectedGroundTruthFile, availableHyperparameters, hyperparameterSets>>

(* the file selectors of the form of a dataset, bound to selectedDataFile   *)
(* and selectedGroundTruthFile                                              *)
SelectFiles(dataFile, groundTruthFile) ==
    /\ showDetailPanel
    /\ DetailNodeType = "dataset"
    /\ selectedDataFile' = dataFile
    /\ selectedGroundTruthFile' = groundTruthFile
    /\ ev' = Plain
    /\ UNCHANGED <<nodes, edges, selectedNode, connectingPort, tempEdgeEnd, showNodeMenu,
                   contextMenuCanvasPos, canvasOffset, canvasScale, now, nextRef, timer,
                   pointerVars, showDetailPanel, detailNode, selectedId, selectedVersion,
                   startedOn>>
    /\ UNCHANGED contextVars
    /\ UNCHANGED <<availableDatasets, availableModels, availableMetrics,
                   availableHyperparameters, hyperparameterSets, parameters>>

(* loadAvailableData: the response to one of its three requests arrives    *)
(* (token$ emits again whenever the token changes): the catalog of that     *)
(* kind is replaced by the data received                                    *)
OnCatalogLoaded(type, data) ==
    /\ availableDatasets' = IF type = "dataset" THEN data ELSE availableDatasets
    /\ availableModels' = IF type = "model" THEN data ELSE availableModels
    /\ availableMetrics' = IF type = "metric" THEN data ELSE availableMetrics
    /\ ev' = Plain
    /\ UNCHANGED <<nodes, edges, selectedNode, connectingPort, tempEdgeEnd, showNodeMenu,
                   contextMenuCanvasPos, canvasOffset, canvasScale, now, nextRef, timer,
                   pointerVars, showDetailPanel, detailNode, selectedId, selectedVersion,
                   startedOn>>
    /\ UNCHANGED contextVars
    /\ UNCHANGED <<selectedDataFile, selectedGroundTruthFile, availableHyperparameters,
                   hyperparameterSets, parameters>>

(* the pointer is over the node: the browser delivers a pointer-down there  *)
(* to the node element, elsewhere to the canvas                             *)
Hits(n, c) ==
    /\ QLeq(n.x, c.x) /\ QLeq(c.x, QPlus(n.x, n.width))
    /\ QLeq(n.y, c.y) /\ QLeq(c.y, QPlus(n.y, n.height))

NodesUnder(p) ==
    LET c == ScreenToCanvas(p, canvasOffset, canvasScale)
    IN  {i \in DOMAIN nodes : Hits(nodes[i], c)}

(* lines 365-369: the press point relative to the node, in canvas units *)
(* the offset taken in screen pixels, without dividing by the scale *)
DragOffsetInPixels(n, p, off, sc) ==
    LET s == ScaleQ(sc)
        nodeX == QPlus(QMul(n.x, s), off.x)
        nodeY == QPlus(QMul(n.y, s), off.y)
    IN  [x |-> QSub(QInt(p.x - Rect.left), nodeX),
         y |-> QSub(QInt(p.y - Rect.top), nodeY)]

DragOffsetAt(n, p, off, sc) ==
    LET s == ScaleQ(sc)
        nodeX == QPlus(QMul(n.x, s), off.x)
        nodeY == QPlus(QMul(n.y, s), off.y)
    IN  [x |-> QDiv(QSub(QInt(p.x - Rect.left), nodeX), s),
         y |-> QDiv(QSub(QInt(p.y - Rect.top), nodeY), s)]

(* a press exactly at the end of the window still taken for a double-click *)
OnNodeMouseDownInclusive(i, p, button, ctrlKey) ==
    /\ i \in DOMAIN nodes
    /\ selectedNode' = Some(nodes[i].ref)
    /\ \E currentTime \in ClockFrom(now) \cup AfterPause(now) :
          /\ now' = currentTime
          /\ IF /\ lastClickedNode = Some(nodes[i].ref)
                /\ currentTime - lastClickTime <= DoubleClickWindow
             THEN \* double-click: openDetailPanel(node)
                  /\ detailNode' = Some(nodes[i].ref)
                  /\ showDetailPanel' = TRUE
                  /\ FormLoaded(nodes[i])
                  /\ lastClickTime' = 0
                  /\ lastClickedNode' = Null
                  /\ UNCHANGED <<draggingNode, dragOffset>>
             ELSE /\ lastClickTime' = currentTime
                  /\ lastClickedNode' = Some(nodes[i].ref)
                  /\ draggingNode' = Some(nodes[i].ref)
                  /\ dragOffset' = DragOffsetAt(nodes[i], p, canvasOffset, canvasScale)
                  /\ UNCHANGED panelVars
    /\ ev' = Plain
    /\ UNCHANGED <<nodes, edges, connectingPort, tempEdgeEnd, showNodeMenu,
                   contextMenuCanvasPos, canvasOffset, canvasScale, nextRef, timer,
                   isPanning, panStart, startedOn>>

(* onNodeMouseDown(event, node); the handler reads neither event.button nor *)
(* the modifier keys                                                        *)
OnNodeMouseDown(i, p, button, ctrlKey) ==
    /\ i \in DOMAIN nodes
    /\ selectedNode' = Some(nodes[i].ref)
    /\ \E currentTime \in ClockFrom(now) \cup AfterPause(now) :
          /\ now' = currentTime
          /\ IF /\ lastClickedNode = Some(nodes[i].ref)
                /\ currentTime - lastClickTime < DoubleClickWindow
             THEN \* double-click: openDetailPanel(node)
                  /\ detailNode' = Some(nodes[i].ref)
                  /\ showDetailPanel' = TRUE
                  /\ FormLoaded(nodes[i])
                  /\ lastClickTime' = 0
                  /\ lastClickedNode' = Null
                  /\ UNCHANGED <<draggingNode, dragOffset>>
             ELSE /\ lastClickTime' = currentTime
                  /\ lastClickedNode' = Some(nodes[i].ref)
                  /\ draggingNode' = Some(nodes[i].ref)
                  /\ dragOffset' = DragOffsetAt(nodes[i], p, canvasOffset, canvasScale)
                  /\ UNCHANGED panelVars
    /\ ev' = Plain
    /\ UNCHANGED <<nodes, edges, connectingPort, tempEdgeEnd, showNodeMenu,
                   contextMenuCanvasPos, canvasOffset, canvasScale, nextRef, timer,
                   isPanning, panStart, startedOn>>

(* onCanvasMouseDown *)
OnCanvasMouseDown(p, button, ctrlKey) ==
    /\ IF button = 1 \/ (button = 0 /\ ctrlKey)
       THEN /\ isPanning' = TRUE
            /\ panStart' = p
       ELSE UNCHANGED <<isPanning, panStart>>
    /\ ev' = Plain
    /\ UNCHANGED <<nodes, edges, selectedNode, connectingPort, tempEdgeEnd, showNodeMenu,
                   contextMenuCanvasPos, canvasOffset, canvasScale, now, nextRef, timer,
                   draggingNode, dragOffset, lastClickTime, lastClickedNode, panelVars,
                   startedOn>>

(* the dragged node object moved to point c less the drag offset; a node    *)
(* object no longer in this.nodes is moved out of sight of the graph        *)
MoveNode(ns, ref, c, doff) ==
    [k \in DOMAIN ns |->
        IF ns[k].ref = ref
        THEN [ns[k] EXCEPT !.x = QSub(c.x, doff.x), !.y = QSub(c.y, doff.y)]
        ELSE ns[k]]

(* the preview endpoint written on every pointer-move, connecting or not *)
OnMouseMoveAlwaysPreviews(p) ==
    LET off == IF isPanning
               THEN [x |-> canvasOffset.x + (p.x - panStart.x),
                     y |-> canvasOffset.y + (p.y - panStart.y)]
               ELSE canvasOffset
        c == ScreenToCanvas(p, off, canvasScale)
    IN  /\ canvasOffset' = off
        /\ panStart' = IF isPanning THEN p ELSE panStart
        /\ nodes' = IF ~IsNull(draggingNode)
                    THEN updatePortPositions(MoveNode(nodes, The(draggingNode), c, dragOffset))
                    ELSE nodes
        /\ tempEdgeEnd' = Some(c)
        /\ ev' = Plain
        /\ UNCHANGED <<edges, selectedNode, connectingPort, showNodeMenu,
                       contextMenuCanvasPos, canvasScale, now, nextRef, timer, isPanning,
                       draggingNode, dragOffset, lastClickTime, lastClickedNode, panelVars,
                       startedOn>>

(* onMouseMove: pan, then drag, then the preview end point *)
OnMouseMove(p) ==
    LET off == IF isPanning
               THEN [x |-> canvasOffset.x + (p.x - panStart.x),
                     y |-> canvasOffset.y + (p.y - panStart.y)]
               ELSE canvasOffset
        c == ScreenToCanvas(p, off, canvasScale)
    IN  /\ canvasOffset' = off
        /\ panStart' = IF isPanning THEN p ELSE panStart
        /\ nodes' = IF ~IsNull(draggingNode)
                    THEN updatePortPositions(MoveNode(nodes, The(draggingNode), c, dragOffset))
                    ELSE nodes
        /\ tempEdgeEnd' = IF ~IsNull(tempEdgeEnd) THEN Some(c) ELSE tempEdgeEnd
        /\ ev' = Plain
        /\ UNCHANGED <<edges, selectedNode, connectingPort, showNodeMenu,
                       contextMenuCanvasPos, canvasScale, now, nextRef, timer, isPanning,
                       draggingNode, dragOffset, lastClickTime, lastClickedNode, panelVars,
                       startedOn>>

(* a release that ends the pan only *)
OnMouseUpKeepsDrag ==
    /\ isPanning' = FALSE
    /\ ev' = Plain
    /\ UNCHANGED <<nodes, edges, selectedNode, connectingPort, tempEdgeEnd, showNodeMenu,
                   contextMenuCanvasPos, canvasOffset, canvasScale, now, nextRef, timer,
                   panStart, draggingNode, dragOffset, lastClickTime, lastClickedNode,
                   panelVars, startedOn>>

(* onMouseUp *)
OnMouseUp ==
    /\ isPanning' = FALSE
    /\ draggingNode' = Null
    /\ ev' = Plain
    /\ UNCHANGED <<nodes, edges, selectedNode, connectingPort, tempEdgeEnd, showNodeMenu,
                   contextMenuCanvasPos, canvasOffset, canvasScale, now, nextRef, timer,
                   panStart, dragOffset, lastClickTime, lastClickedNode, panelVars,
                   startedOn>>

(* onCanvasWheel: the factor 0.9 or 1.1, then the clamp *)
OnCanvasWheel(deltaY) ==
    /\ canvasScale' = ClampScale(ScaleTimesTenths(canvasScale, IF deltaY > 0 THEN 9 ELSE 11))
    /\ ev' = Plain
    /\ UNCHANGED <<nodes, edges, selectedNode, connectingPort, tempEdgeEnd, showNodeMenu,
                   contextMenuCanvasPos, canvasOffset, now, nextRef, timer, pointerVars,
                   panelVars, startedOn>>

----------------------------------------------------------------------------

(* createEdge called directly with arbitrary references *)
NodeIds == 0..MaxTime
PortIds == {"input-1", "output-1"}

CreateEdgeCall(sn, sp, tn, tp) ==
    /\ Len(edges) < MaxEdges
    /\ \E t \in ClockFrom(now) :
          /\ edges' = createEdge(edges, t, sn, sp, tn, tp)
          /\ now' = IF EdgeExists(edges, sn, sp, tn, tp) THEN now ELSE t
          /\ (EdgeExists(edges, sn, sp, tn, tp) => t = now)
    /\ ev' = [Plain EXCEPT !.dup = EdgeExists(edges, sn, sp, tn, tp)]
    /\ UNCHANGED <<nodes, selectedNode, connectingPort, tempEdgeEnd, showNodeMenu,
                   contextMenuCanvasPos, canvasOffset, canvasScale, nextRef, timer,
                   startedOn>>
    /\ UNCHANGED <<pointerVars, panelVars>>

(* the graph operations, the connect interaction and the startup timers *)
Next ==
    \/ AddExampleNodes /\ UNCHANGED steps
    \/ AutoConnect /\ UNCHANGED steps
    \/ \E type \in Kinds : CreateNode(type) /\ UNCHANGED steps
    \/ \E i \in DOMAIN nodes : DeleteNode(i) /\ UNCHANGED steps
    \/ \E j \in DOMAIN edges : DeleteEdge(j) /\ UNCHANGED steps
    \/ \E i \in DOMAIN nodes : \E port \in PortsOf(nodes[i]) :
          OnPortMouseDown(i, port) /\ UNCHANGED steps

Spec == Init /\ [][Next]_vars

(* the same with the clicks on the canvas and the node creation menu *)
NextMenu ==
    \/ Next
    \/ \E b \in BOOLEAN : OnCanvasClick(b) /\ UNCHANGED steps
    \/ \E p \in Pointers : OnCanvasContextMenu(p) /\ UNCHANGED steps
    \/ \E b \in BOOLEAN : OnDocumentClick(b) /\ UNCHANGED steps

SpecMenu == Init /\ [][NextMenu]_vars

(* the same with createEdge as an operation of its own *)
NextApi ==
    \/ Next
    \/ \E sn, tn \in NodeIds : \E sp, tp \in PortIds :
          CreateEdgeCall(sn, sp, tn, tp) /\ UNCHANGED steps

SpecApi == Init /\ [][NextApi]_vars

(* The pointer interaction on the example nodes.  A pointer-down goes to    *)
(* the node under the pointer, or to the canvas when there is none (the     *)
(* node handlers stop the event).  A run handles at most MaxEvents user     *)
(* events, the wheel turning while the scale has fewer than MaxWheel        *)
(* decimals; the clock stands still between them except for pauses of the   *)
(* length of the double-click window.                                       *)
NodeDownEvent ==
    \E p \in Pointers : \E i \in NodesUnder(p) :
        \E button \in Buttons : \E ctrlKey \in BOOLEAN :
            OnNodeMouseDown(i, p, button, ctrlKey)

CanvasDownEvent ==
    \E p \in Pointers :
        /\ NodesUnder(p) = {}
        /\ \E button \in Buttons : \E ctrlKey \in BOOLEAN :
              OnCanvasMouseDown(p, button, ctrlKey)

Counted == steps < MaxEvents /\ steps' = steps + 1
CountedEdit == steps < MaxEdits /\ steps' = steps + 1

ClockStill == now' = now \/ now' \in AfterPause(now)

NextDrag ==
    \/ AddExampleNodes /\ ClockStill /\ UNCHANGED steps
    \/ Counted /\ NodeDownEvent /\ ClockStill
    \/ Counted /\ CanvasDownEvent
    \/ Counted /\ \E p \in Pointers : OnMouseMove(p)
    \/ Counted /\ OnMouseUp
    \/ Counted /\ canvasScale.exp < MaxWheel /\ \E deltaY \in DeltaYs : OnCanvasWheel(deltaY)

SpecDrag == Init /\ [][NextDrag]_vars

(* the same with the connect interaction, the clicks and the menu *)
NextPointer ==
    \/ NextDrag
    \/ Counted /\ \E i \in DOMAIN nodes : \E port \in PortsOf(nodes[i]) :
                      OnPortMouseDown(i, port)
    \/ Counted /\ \E b \in BOOLEAN : OnCanvasClick(b)
    \/ Counted /\ \E p \in Pointers : OnCanvasContextMenu(p)
    \/ Counted /\ \E b \in BOOLEAN : OnDocumentClick(b)

SpecPointer == Init /\ [][NextPointer]_vars

(* Connecting and cancelling: port presses, the preview following the       *)
(* pointer and clicks, with both startup timers.                            *)
NextConnect ==
    \/ AddExampleNodes /\ ClockStill /\ UNCHANGED steps
    \/ AutoConnect /\ ClockStill /\ UNCHANGED steps
    \/ Counted /\ \E i \in DOMAIN nodes : \E port \in PortsOf(nodes[i]) :
                      OnPortMouseDown(i, port)
    \/ Counted /\ \E p \in Pointers : OnMouseMove(p)
    \/ Counted /\ OnMouseUp
    \/ Counted /\ \E b \in BOOLEAN : OnCanvasClick(b)

SpecConnect == Init /\ [][NextConnect]_vars

(* The context menu: right-clicks under a viewport that is panned and       *)
(* zoomed, clicks that close the menu, and node creation from it.           *)
NextSpawn ==
    \/ Counted /\ canvasScale.exp < MaxWheel /\ \E deltaY \in DeltaYs : OnCanvasWheel(deltaY)
    \/ Counted /\ CanvasDownEvent
    \/ Counted /\ \E p \in Pointers : OnMouseMove(p)
    \/ Counted /\ OnMouseUp
    \/ Counted /\ \E p \in Pointers : OnCanvasContextMenu(p)
    \/ Counted /\ \E b \in BOOLEAN : OnDocumentClick(b)
    \/ Counted /\ ClockStill /\ \E type \in Kinds : CreateNode(type)

SpecSpawn == Init /\ [][NextSpawn]_vars

(* the graph operations of Next and both timers, at any clock values, in a  *)
(* run of at most MaxEdits user operations                                  *)
NextGraph ==
    \/ AddExampleNodes /\ UNCHANGED steps
    \/ AutoConnect /\ UNCHANGED steps
    \/ CountedEdit /\ \E type \in Kinds : CreateNode(type)
    \/ CountedEdit /\ \E i \in DOMAIN nodes : DeleteNode(i)
    \/ CountedEdit /\ \E j \in DOMAIN edges : DeleteEdge(j)
    \/ CountedEdit /\ \E i \in DOMAIN nodes : \E port \in PortsOf(nodes[i]) :
          OnPortMouseDown(i, port)

SpecGraph == Init /\ [][NextGraph]_vars

(* the wheel alone: long enough runs for both clamps to act, which takes    *)
(* 22 steps down from 1.0 and 12 steps up                                   *)
NextZoom ==
    /\ canvasScale.exp < MaxZoom
    /\ \E deltaY \in DeltaYs : OnCanvasWheel(deltaY)
    /\ UNCHANGED steps

SpecZoom == Init /\ [][NextZoom]_vars

(* The two coordinate conversions as the code computes them, in             *)
(* floating-point arithmetic: canvas to screen as getPortPosition and the   *)
(* path routines do, screen to canvas as the drag, preview and context-menu *)
(* handlers do.                                                             *)
FloatScale(sc) == RoundTo(ScaleQ(sc))

getPortPosition(c, off, sc) ==
    [x |-> FAdd(FMul(c.x, FloatScale(sc)), QInt(off.x)),
     y |-> FAdd(FMul(c.y, FloatScale(sc)), QInt(off.y))]

(* the division by the scale left out *)
FloatScreenToCanvasUnscaled(q, off, sc) ==
    [x |-> FSub(FSub(q.x, QInt(Rect.left)), QInt(off.x)),
     y |-> FSub(FSub(q.y, QInt(Rect.top)), QInt(off.y))]

FloatScreenToCanvas(q, off, sc) ==
    [x |-> FDiv(FSub(FSub(q.x, QInt(Rect.left)), QInt(off.x)), FloatScale(sc)),
     y |-> FDiv(FSub(FSub(q.y, QInt(Rect.top)), QInt(off.y)), FloatScale(sc))]

(* canvas points, offsets and scales a session can have reached *)
ViewCoordinates == {RoundTo(q) : q \in {QInt(-40), QInt(0), QInt(100), QInt(250), Q(1, 10)}}
ViewPoints == {[x |-> cx, y |-> cy] : cx \in ViewCoordinates, cy \in {QInt(100), QInt(250)}}
ViewOffsets == {[x |-> 0, y |-> 0], [x |-> 37, y |-> -15], [x |-> -150, y |-> 100]}
ViewScales ==
    {ScaleOne, ScaleMin, ScaleMax,
     [digits |-> <<9>>, exp |-> 1], [digits |-> <<1, 1>>, exp |-> 1],
     [digits |-> <<1, 8>>, exp |-> 2]}

InitView ==
    /\ nodes = <<>>
    /\ edges = <<>>
    /\ selectedNode = Null
    /\ connectingPort = Null
    /\ tempEdgeEnd = Null
    /\ showNodeMenu = FALSE
    /\ contextMenuCanvasPos \in ViewPoints
    /\ canvasOffset \in ViewOffsets
    /\ canvasScale \in ViewScales
    /\ now = 0
    /\ nextRef = 1
    /\ timer = "examples"
    /\ isPanning = FALSE
    /\ panStart = [x |-> 0, y |-> 0]
    /\ draggingNode = Null
    /\ dragOffset = [x |-> QInt(0), y |-> QInt(0)]
    /\ lastClickTime = 0
    /\ lastClickedNode = Null
    /\ showDetailPanel = FALSE
    /\ detailNode = Null
    /\ selectedId = ""
    /\ selectedVersion = ""
    /\ availableDatasets = Catalog("dataset")
    /\ availableModels = Catalog("model")
    /\ availableMetrics = Catalog("metric")
    /\ selectedDataFile = ""
    /\ selectedGroundTruthFile = ""
    /\ availableHyperparameters = <<>>
    /\ hyperparameterSets = <<>>
    /\ parameters = <<>>
    /\ availableTasks = Tasks
    /\ selectedTaskId = ""
    /\ selectedTaskType = ""
    /\ selectedTaskVersion = ""
    /\ taskVersions = <<>>
    /\ taskTypeChange = <<>>
    /\ startedOn = 0
    /\ ev = Plain
    /\ steps = 0

(* a right-click with the pointer exactly where the recorded canvas point   *)
(* is drawn on the screen: onCanvasContextMenu records the point again      *)
ContextMenuAtRecordedPoint ==
    /\ ~showNodeMenu
    /\ contextMenuCanvasPos' =
          FloatScreenToCanvas(getPortPosition(contextMenuCanvasPos, canvasOffset, canvasScale),
                              canvasOffset, canvasScale)
    /\ showNodeMenu' = TRUE
    /\ ev' = Plain
    /\ UNCHANGED <<nodes, edges, selectedNode, connectingPort, tempEdgeEnd, canvasOffset,
                   canvasScale, now, nextRef, timer, startedOn, steps>>
    /\ UNCHANGED <<pointerVars, panelVars>>

SpecView == InitView /\ [][ContextMenuAtRecordedPoint]_vars

(* the configuration form, open after a double-click *)
FormEvent ==
    \/ \E id \in FormIds : OnIdSelect(id)
    \/ \E version \in FormVersions : OnVersionSelect(version)
    \/ OnApplyConfiguration
    \/ CloseDetailPanel

(* editing the graph: creating, dragging, connecting, configuring and       *)
(* deleting nodes, in a run of at most MaxEdits user events outside the     *)
(* form                                                                     *)
NextEdit ==
    \/ AddExampleNodes /\ ClockStill /\ UNCHANGED steps
    \/ FormEvent /\ UNCHANGED steps
    \/ CountedEdit /\ ClockStill /\ \E type \in Kinds : CreateNode(type)
    \/ CountedEdit /\ \E i \in DOMAIN nodes : DeleteNode(i)
    \/ CountedEdit /\ ClockStill /\ \E i \in DOMAIN nodes : \E port \in PortsOf(nodes[i]) :
          OnPortMouseDown(i, port)
    \/ CountedEdit /\ ClockStill /\ \E p \in Pointers : \E i \in NodesUnder(p) :
          OnNodeMouseDown(i, p, 0, FALSE)
    \/ CountedEdit /\ \E p \in Pointers : OnMouseMove(p)
    \/ CountedEdit /\ OnMouseUp

SpecEdit == Init /\ [][NextEdit]_vars

(* every handler and both timers, in a run of at most MaxSteps user events  *)
(* outside the form                                                         *)
NextAll ==
    \/ AddExampleNodes /\ UNCHANGED steps
    \/ AutoConnect /\ ClockStill /\ UNCHANGED steps
    \/ FormEvent /\ UNCHANGED steps
    \/ /\ steps < MaxSteps
       /\ steps' = steps + 1
       /\ \/ ClockStill /\ \E type \in Kinds : CreateNode(type)
          \/ \E i \in DOMAIN nodes : DeleteNode(i)
          \/ \E j \in DOMAIN edges : DeleteEdge(j)
          \/ ClockStill /\ \E i \in DOMAIN nodes : \E port \in PortsOf(nodes[i]) :
                OnPortMouseDown(i, port)
          \/ NodeDownEvent /\ ClockStill
          \/ CanvasDownEvent
          \/ \E p \in Pointers : OnMouseMove(p)
          \/ OnMouseUp
          \/ canvasScale.exp < MaxWheel /\ \E deltaY \in DeltaYs : OnCanvasWheel(deltaY)
          \/ \E b \in BOOLEAN : OnCanvasClick(b)
          \/ \E p \in Pointers : OnCanvasContextMenu(p)
          \/ \E b \in BOOLEAN : OnDocumentClick(b)

SpecAll == Init /\ [][NextAll]_vars

(* The configuration panel on the example nodes: double-clicks open it,    *)
(* the form offers the ids of the catalog of the node's kind (the options   *)
(* updateDropdownOptions derives) and the versions of the chosen item, the  *)
(* catalogs may be loaded again at any time, each with the items first      *)
(* loaded or with none, and nodes may be deleted.  A run has at most        *)
(* MaxPanel pointer-downs and deletions and adds at most MaxSets            *)
(* hyperparameter sets; the clock stands still except when a set is added.  *)
PanelPointers ==
    {[x |-> 150, y |-> 300], [x |-> 350, y |-> 300], [x |-> 550, y |-> 300],
     [x |-> 750, y |-> 300]}

OptionIds == {it.id : it \in Available(DetailNodeType)}

CountedPanel == steps < MaxPanel /\ steps' = steps + 1

NextPanel ==
    \/ AddExampleNodes /\ now' = now /\ UNCHANGED steps
    \/ CountedPanel /\ now' = now /\ \E p \in PanelPointers : \E i \in NodesUnder(p) :
          OnNodeMouseDown(i, p, 0, FALSE)
    \/ CountedPanel /\ \E i \in DOMAIN nodes : DeleteNode(i)
    \/ UNCHANGED steps /\ \E id \in OptionIds : OnIdSelect(id)
    \/ UNCHANGED steps /\ ~IsNull(FindItem(DetailNodeType, selectedId))
          /\ \E version \in FormVersions : OnVersionSelect(version)
    \/ UNCHANGED steps /\ OnApplyConfiguration
    \/ UNCHANGED steps /\ CloseDetailPanel
    \/ UNCHANGED steps /\ AddHyperparameterSet
    \/ UNCHANGED steps /\ \E k \in DOMAIN hyperparameterSets :
          RemoveHyperparameterSet(hyperparameterSets[k].id)
    \/ UNCHANGED steps /\ \E k \in DOMAIN hyperparameterSets :
          \E name \in HyperparameterNames : \E value \in HyperparameterValues :
              UpdateHyperparameterValue(hyperparameterSets[k].id, name, value)
    \/ UNCHANGED steps /\ \E k \in DOMAIN hyperparameterSets :
          \E name \in HyperparameterNames :
              ResetHyperparameterToDefault(hyperparameterSets[k].id, name)
    \/ UNCHANGED steps /\ \E f \in {<<"a.csv", "b.csv">>, <<"b.csv", "">>} :
          SelectFiles(f[1], f[2])
    \/ UNCHANGED steps /\ \E type \in {"dataset", "model", "metric"} :
          \E data \in {{}, Catalog(type)} : OnCatalogLoaded(type, data)

SpecPanel == Init /\ [][NextPanel]_vars

(* The context view (ContextViewComponent) *)

(* onTaskIdChange(taskId), lines 104-128 *)
FindTask(taskId) ==
    LET at == {k \in DOMAIN availableTasks : availableTasks[k].task_id = taskId}
    IN  IF at = {} THEN Null ELSE Some(availableTasks[CHOOSE k \in at : \A l \in at : k <= l])

VersionNumbers(task) ==
    [k \in DOMAIN task.task_version_info_list |->
        task.task_version_info_list[k].version.version_number]

OnTaskIdChange(taskId) ==
    /\ selectedTaskId' = taskId
    /\ IF ~IsNull(FindTask(taskId))
       THEN LET task == The(FindTask(taskId))
                versions == VersionNumbers(task)
                first == IF Len(versions) > 0 THEN versions[1] ELSE ""
            IN  /\ selectedTaskType' = task.task_name
                /\ taskVersions' = versions
                /\ selectedTaskVersion' = first
                /\ taskTypeChange' = <<[taskName |-> task.task_name, taskId |-> taskId,
                                        taskVersion |-> first]>>
       ELSE /\ selectedTaskType' = ""
            /\ taskVersions' = <<>>
            /\ selectedTaskVersion' = ""
            /\ taskTypeChange' = <<[taskName |-> "", taskId |-> "", taskVersion |-> ""]>>
    /\ ev' = Plain
    /\ UNCHANGED <<nodes, edges, selectedNode, connectingPort, tempEdgeEnd, showNodeMenu,
                   contextMenuCanvasPos, canvasOffset, canvasScale, now, nextRef, timer,
                   pointerVars, showDetailPanel, detailNode, selectedId, selectedVersion,
                   formVars, availableTasks, startedOn>>

(* onTaskVersionChange(event), lines 130-133; value is event.target.value *)
OnTaskVersionChange(value) ==
    /\ selectedTaskVersion' = value
    /\ taskTypeChange' = <<[taskName |-> selectedTaskType, taskId |-> selectedTaskId,
                            taskVersion |-> value]>>
    /\ ev' = Plain
    /\ UNCHANGED <<nodes, edges, selectedNode, connectingPort, tempEdgeEnd, showNodeMenu,
                   contextMenuCanvasPos, canvasOffset, canvasScale, now, nextRef, timer,
                   pointerVars, showDetailPanel, detailNode, selectedId, selectedVersion,
                   formVars, availableTasks, selectedTaskId, selectedTaskType, taskVersions,
                   startedOn>>

(* the task ids onTaskIdChange is called with: the empty choice, the two    *)
(* tasks loaded and one that is not among them                              *)
TaskIds == {"", "1", "2", "9"}

(* the task lists a version of a model or metric of the backend may carry   *)
TaskLists ==
    {<<StaticTask>>,
     <<TaskObject(<<"2">>, <<>>, <<"static">>)>>,
     <<TaskObject(<<>>, <<"1">>, <<"other">>)>>,
     <<PlainTask("1")>>,
     <<TaskObject(<<"2">>, <<"1">>, <<"temporal">>), PlainTask("2")>>}

(* the component with catalogs whose models and metrics carry one of the    *)
(* task lists                                                               *)
InitContext ==
    /\ nodes = <<>>
    /\ edges = <<>>
    /\ selectedNode = Null
    /\ connectingPort = Null
    /\ tempEdgeEnd = Null
    /\ showNodeMenu = FALSE
    /\ contextMenuCanvasPos = [x |-> QInt(0), y |-> QInt(0)]
    /\ canvasOffset = [x |-> 0, y |-> 0]
    /\ canvasScale = ScaleOne
    /\ now = 0
    /\ nextRef = 1
    /\ timer = "examples"
    /\ isPanning = FALSE
    /\ panStart = [x |-> 0, y |-> 0]
    /\ draggingNode = Null
    /\ dragOffset = [x |-> QInt(0), y |-> QInt(0)]
    /\ lastClickTime = 0
    /\ lastClickedNode = Null
    /\ showDetailPanel = FALSE
    /\ detailNode = Null
    /\ selectedId = ""
    /\ selectedVersion = ""
    /\ availableDatasets = Catalog("dataset")
    /\ \E tasks \in TaskLists :
          /\ availableModels = {CatalogItemWith("model", "3", "Net", tasks)}
          /\ availableMetrics = {CatalogItemWith("metric", "5", "F1", tasks)}
    /\ selectedDataFile = ""
    /\ selectedGroundTruthFile = ""
    /\ availableHyperparameters = <<>>
    /\ hyperparameterSets = <<>>
    /\ parameters = <<>>
    /\ availableTasks = Tasks
    /\ selectedTaskId = ""
    /\ selectedTaskType = ""
    /\ selectedTaskVersion = ""
    /\ taskVersions = <<>>
    /\ taskTypeChange = <<>>
    /\ startedOn = 0
    /\ ev = Plain
    /\ steps = 0

(* Choosing the task in the context view while the example Model and        *)
(* Metric nodes are configured through the panel, in a run of at most       *)
(* MaxPanel pointer-downs with the clock standing still.                    *)
ContextPointers == {[x |-> 550, y |-> 300], [x |-> 750, y |-> 300]}

NextContext ==
    \/ AddExampleNodes /\ now' = now /\ UNCHANGED steps
    \/ CountedPanel /\ now' = now /\ \E p \in ContextPointers : \E i \in NodesUnder(p) :
          OnNodeMouseDown(i, p, 0, FALSE)
    \/ UNCHANGED steps /\ \E id \in OptionIds : OnIdSelect(id)
    \/ UNCHANGED steps /\ ~IsNull(FindItem(DetailNodeType, selectedId))
          /\ \E version \in FormVersions : OnVersionSelect(version)
    \/ UNCHANGED steps /\ OnApplyConfiguration
    \/ UNCHANGED steps /\ \E taskId \in TaskIds : OnTaskIdChange(taskId)
    \/ UNCHANGED steps /\ \E k \in DOMAIN taskVersions : OnTaskVersionChange(taskVersions[k])

SpecContext == InitContext /\ [][NextContext]_vars

----------------------------------------------------------------------------
(* Edge resolution as the renderer does it (getEdgePath): the first node    *)
(* carrying the id, then the port among that node's output / input ports    *)

Resolves(ns, sn, sp, tn, tp) ==
    LET sourceNode == FindNode(ns, sn)
        targetNode == FindNode(ns, tn)
    IN  /\ ~IsNull(sourceNode)
        /\ ~IsNull(targetNode)
        /\ ~IsNull(FindPort(The(sourceNode).outputPorts, sp))
        /\ ~IsNull(FindPort(The(targetNode).inputPorts, tp))

----------------------------------------------------------------------------
(* Vocabulary of the properties *)

(* the compatibility table: source kind, target kind *)
PermittedPairs ==
    {<<"dataset", "processor">>, <<"dataset", "model">>,
     <<"model", "processor">>, <<"model", "metric">>,
     <<"processor", "processor">>, <<"processor", "model">>, <<"processor", "metric">>}

Refs(ns) == {ns[k].ref : k \in DOMAIN ns}
NodeByRef(ns, r) == ns[CHOOSE k \in DOMAIN ns : ns[k].ref = r]
PortIdsOf(ports) == {ports[k].id : k \in DOMAIN ports}
RemoveAt(q, i) == [k \in 1..(Len(q) - 1) |-> IF k < i THEN q[k] ELSE q[k + 1]]
TupleOf(e) == <<e.sourceNodeId, e.sourcePortId, e.targetNodeId, e.targetPortId>>

(* the id of nodes[i] looks up nodes[i] itself *)
ResolvesToItself(i) == FindNode(nodes, nodes[i].id) = Some(nodes[i])

(* the edges left by a pointer-down on port p1 of node n1 followed by one   *)
(* on port p2 of node n2, starting with no connection in progress           *)
EdgesAfterClicks(n1, p1, n2, p2) ==
    LET first == PortDown(nodes, edges, Null, Null, now, n1, p1)
    IN  PortDown(nodes, first.edges, first.connectingPort, first.tempEdgeEnd,
                 now, n2, p2).edges

----------------------------------------------------------------------------
(* C1: every edge resolves: its source id finds a node with the edge's      *)
(* source port among its output ports, and its target id finds a node with  *)
(* the edge's target port among its input ports.                            *)
C1_EdgesResolve ==
    \A k \in DOMAIN edges :
        Resolves(nodes, edges[k].sourceNodeId, edges[k].sourcePortId,
                 edges[k].targetNodeId, edges[k].targetPortId)

(* C2: for every edge, the kinds of the nodes its source id and target id   *)
(* find are a pair of the compatibility table.                              *)
C2_EdgeKindsPermitted ==
    \A k \in DOMAIN edges :
        LET sourceNode == FindNode(nodes, edges[k].sourceNodeId)
            targetNode == FindNode(nodes, edges[k].targetNodeId)
        IN  (~IsNull(sourceNode) /\ ~IsNull(targetNode))
                => <<The(sourceNode).type, The(targetNode).type>> \in PermittedPairs

(* C3: a pointer-down on a port that adds an edge while a connection is in  *)
(* progress joins two ports of opposite direction on nodes with different   *)
(* ids; the edge runs from the output port to the input port and the table  *)
(* permits the kind of the output port's node -> the kind of the input      *)
(* port's node.                                                             *)
C3_CommitIsLegal ==
    [][\A i \in DOMAIN nodes : \A port \in PortsOf(nodes[i]) :
          (~IsNull(connectingPort) /\ OnPortMouseDown(i, port) /\ Len(edges') > Len(edges))
          => /\ The(connectingPort).type # port.type
             /\ startedOn \in Refs(nodes)
             /\ LET a == NodeByRef(nodes, startedOn)
                    b == nodes[i]
                    out == IF port.type = "output" THEN b ELSE a
                    in == IF port.type = "output" THEN a ELSE b
                    e == edges'[Len(edges')]
                IN  /\ a.id # b.id
                    /\ e.sourceNodeId = out.id
                    /\ e.sourcePortId \in PortIdsOf(out.outputPorts)
                    /\ e.targetNodeId = in.id
                    /\ e.targetPortId \in PortIdsOf(in.inputPorts)
                    /\ <<out.type, in.type>> \in PermittedPairs]_vars

(* C4: with no connection in progress, for an output port p of a node A and *)
(* an input port q of another node B (each id looking up its own node),     *)
(* clicking p then q and clicking q then p leave the same edges: the edge   *)
(* (A,p)->(B,q) added when the table permits kind(A) -> kind(B), nothing    *)
(* added otherwise.                                                         *)
C4_OrderIndependent ==
    IsNull(connectingPort) =>
        \A i, j \in DOMAIN nodes :
            (i # j /\ nodes[i].id # nodes[j].id /\ ResolvesToItself(i) /\ ResolvesToItself(j))
            => \A p \in PortIdsOf(nodes[i].outputPorts) :
               \A q \in PortIdsOf(nodes[j].inputPorts) :
                 LET A == nodes[i]
                     B == nodes[j]
                     pq == EdgesAfterClicks(A, The(FindPort(A.outputPorts, p)),
                                            B, The(FindPort(B.inputPorts, q)))
                     qp == EdgesAfterClicks(B, The(FindPort(B.inputPorts, q)),
                                            A, The(FindPort(A.outputPorts, p)))
                 IN  /\ pq = qp
                     /\ pq = IF <<A.type, B.type>> \in PermittedPairs
                             THEN createEdge(edges, now, A.id, p, B.id, q)
                             ELSE edges

(* C5: a createEdge call whose references do not resolve in the current     *)
(* graph leaves the edges unchanged.                                        *)
C5_CreateEdgeRejectsUnresolved ==
    [][\A sn, tn \in NodeIds : \A sp, tp \in PortIds :
          (CreateEdgeCall(sn, sp, tn, tp) /\ ~Resolves(nodes, sn, sp, tn, tp))
          => edges' = edges]_vars

(* C6: no two edges carry the same four references, and createEdge applied  *)
(* twice with the same references to the current edges leaves exactly one   *)
(* edge with them, the second application changing nothing.                 *)
C6_NoDuplicateEdges ==
    /\ \A a, b \in DOMAIN edges : TupleOf(edges[a]) = TupleOf(edges[b]) => a = b
    /\ \A sn, tn \in NodeIds : \A sp, tp \in PortIds :
          LET once == createEdge(edges, now, sn, sp, tn, tp)
              twice == createEdge(once, MaxTime, sn, sp, tn, tp)
          IN  /\ twice = once
              /\ \E k \in DOMAIN twice :
                    \A j \in DOMAIN twice :
                        (TupleOf(twice[j]) = <<sn, sp, tn, tp>>) <=> (j = k)

(* a handler called createEdge with references that an edge already had *)
C6_Witness ==
    /\ ev.dup
    /\ ~ev.threw
    /\ Len(edges) >= 1

(* C7: deleteNode(N) removes the node N and no other node, and removes the  *)
(* edges whose source or target id is N's id and no other edge; the nodes   *)
(* and edges that stay are unchanged.                                       *)
C7_DeleteNodeFrame ==
    [][\A i \in DOMAIN nodes :
          DeleteNode(i)
          => /\ nodes' = RemoveAt(nodes, i)
             /\ LET Stays(e) == e.sourceNodeId # nodes[i].id /\ e.targetNodeId # nodes[i].id
                IN  edges' = SelectSeq(edges, Stays)]_vars

(* C8: the ids of the nodes are pairwise distinct. *)
C8_NodeIdsDistinct ==
    \A i, j \in DOMAIN nodes : nodes[i].id = nodes[j].id => i = j

(* C9: isValidConnection is true exactly on the seven pairs of the table,   *)
(* and the verdict a connection attempt obtained from it is the table's.    *)
C9_ValidityTable ==
    /\ \A s, t \in Kinds : isValidConnection(s, t) <=> (<<s, t>> \in PermittedPairs)
    /\ ev.checked # <<>> =>
          (ev.checked[3] <=> (<<ev.checked[1], ev.checked[2]>> \in PermittedPairs))

(* a connection attempt from a model to a metric was checked and accepted *)
C9_Witness ==
    /\ ev.checked = <<"model", "metric", TRUE>>
    /\ \E k \in DOMAIN edges :
          LET s == FindNode(nodes, edges[k].sourceNodeId)
              t == FindNode(nodes, edges[k].targetNodeId)
          IN  ~IsNull(s) /\ ~IsNull(t) /\ The(s).type = "model" /\ The(t).type = "metric"

(* C10: a connection attempt that breaks the direction rule, the self-loop  *)
(* rule or the table raises a message naming the kinds of both nodes and    *)
(* leaves nodes and edges unchanged.                                        *)
C10_ViolationsAlert ==
    [][\A i \in DOMAIN nodes : \A port \in PortsOf(nodes[i]) :
          (~IsNull(connectingPort) /\ OnPortMouseDown(i, port) /\ startedOn \in Refs(nodes))
          => LET a == NodeByRef(nodes, startedOn)
                 b == nodes[i]
                 out == IF port.type = "output" THEN b ELSE a
                 in == IF port.type = "output" THEN a ELSE b
                 breaks == \/ The(connectingPort).type = port.type
                           \/ a.ref = b.ref
                           \/ <<out.type, in.type>> \notin PermittedPairs
             IN  breaks => /\ Len(ev'.alert) = 2
                           /\ {ev'.alert[1], ev'.alert[2]}
                                 = {getNodeTypeLabel(a.type), getNodeTypeLabel(b.type)}
                           /\ nodes' = nodes
                           /\ edges' = edges]_vars

(* C11: a pointer-down on a port while a connection is in progress ends    *)
(* without an error and leaves connectingPort and tempEdgeEnd null, also    *)
(* when the node on which the connection was started has been deleted.      *)
C11_AttemptClearsTransient ==
    [][\A i \in DOMAIN nodes : \A port \in PortsOf(nodes[i]) :
          (~IsNull(connectingPort) /\ OnPortMouseDown(i, port))
          => /\ ~ev'.threw
             /\ IsNull(connectingPort')
             /\ IsNull(tempEdgeEnd')]_vars

(* the interaction modes that are active *)
ActiveModes ==
    (IF isPanning THEN {"Panning"} ELSE {})
        \cup (IF ~IsNull(draggingNode) THEN {"DraggingNode"} ELSE {})
        \cup (IF ~IsNull(connectingPort) THEN {"ConnectingEdge"} ELSE {})
        \cup (IF showNodeMenu THEN {"ContextMenuOpen"} ELSE {})

(* C13: at most one of panning, dragging, connecting and menu-open is       *)
(* active, and none is before the first user event.                         *)
C13_OneModeAtATime ==
    /\ Cardinality(ActiveModes) <= 1
    /\ steps = 0 => ActiveModes = {}

(* C14: the second of two pointer-downs on the same node less than 300 ms   *)
(* apart opens the detail view for that node, and once it is handled no     *)
(* drag is in progress.                                                     *)
C14_DoubleClickCancelsDrag ==
    [][\A p \in Pointers : \A i \in NodesUnder(p) :
         \A button \in Buttons : \A ctrlKey \in BOOLEAN :
            (/\ lastClickedNode = Some(nodes[i].ref)
             /\ now' - lastClickTime < DoubleClickWindow
             /\ OnNodeMouseDown(i, p, button, ctrlKey))
            => /\ showDetailPanel'
               /\ detailNode' = Some(nodes[i].ref)
               /\ IsNull(draggingNode')]_vars

(* C15: a pointer-down on a node with the middle or right button, or with   *)
(* a modifier held, leaves draggingNode null.                               *)
C15_DragOnlyPrimaryButton ==
    [][\A p \in Pointers : \A i \in NodesUnder(p) :
         \A button \in Buttons : \A ctrlKey \in BOOLEAN :
            (/\ button # 0 \/ ctrlKey
             /\ IsNull(draggingNode)
             /\ OnNodeMouseDown(i, p, button, ctrlKey))
            => IsNull(draggingNode')]_vars

(* a pointer-down on node i that is not the second of a double-click *)
StartsDrag(i) ==
    ~(/\ lastClickedNode = Some(nodes[i].ref)
      /\ now' - lastClickTime < DoubleClickWindow)

C20_PanFollowsPointer ==
    [][/\ \A p \in Pointers : \A button \in Buttons : \A ctrlKey \in BOOLEAN :
            (~isPanning /\ OnCanvasMouseDown(p, button, ctrlKey) /\ isPanning')
            => panStart' = p /\ canvasOffset' = canvasOffset
       /\ \A q \in Pointers :
            (isPanning /\ OnMouseMove(q))
            => /\ panStart' = q
               /\ canvasOffset'.x - q.x = canvasOffset.x - panStart.x
               /\ canvasOffset'.y - q.y = canvasOffset.y - panStart.y
               /\ canvasScale' = canvasScale
               /\ edges' = edges
               /\ DOMAIN nodes' = DOMAIN nodes
               /\ \A k \in DOMAIN nodes :
                     nodes'[k].x = nodes[k].x /\ nodes'[k].y = nodes[k].y]_vars

(* decimal numerals, least significant digit first: 10^k, and a <= b *)
TenTo(k) == [j \in 1..(k + 1) |-> IF j = k + 1 THEN 1 ELSE 0]

DigitsLeq(a, b) ==
    \/ Len(a) < Len(b)
    \/ /\ Len(a) = Len(b)
       /\ \/ a = b
          \/ \E k \in 1..Len(a) :
                /\ a[k] < b[k]
                /\ \A j \in (k + 1)..Len(a) : a[j] = b[j]

(* C19: after any sequence of wheel events from scale 1.0 the scale is at   *)
(* least 0.1 and at most 3.0: with the scale written digits / 10^exp,       *)
(* 10^exp <= 10 * digits and digits <= 3 * 10^exp.                          *)
C19_ScaleClamped ==
    /\ DigitsLeq(TenTo(canvasScale.exp), <<0>> \o canvasScale.digits)
    /\ DigitsLeq(canvasScale.digits, TimesDigits(TenTo(canvasScale.exp), 3, 0))

(* the lower clamp has acted: 0.1 is no product of powers of 0.9 and 1.1 *)
C19_Witness == canvasScale = ScaleMin

EdgeSet(es) == {es[k] : k \in DOMAIN es}

(* the step is a pointer-down on a port while a connection is in progress *)
CommitStep ==
    /\ ~IsNull(connectingPort)
    /\ \E i \in DOMAIN nodes : \E port \in PortsOf(nodes[i]) : OnPortMouseDown(i, port)

(* the step is deleteEdge or deleteNode *)
DeleteStep ==
    \/ \E j \in DOMAIN edges : DeleteEdge(j)
    \/ \E i \in DOMAIN nodes : DeleteNode(i)

(* C12, as stated: the edge set gains an edge only in a committing          *)
(* pointer-down on a port, in no other event, operation or timer callback,  *)
(* and loses one only in deleteEdge or deleteNode.                          *)
C12_EdgesOnlyByCommit ==
    [][/\ EdgeSet(edges') \ EdgeSet(edges) # {} => CommitStep
       /\ EdgeSet(edges) \ EdgeSet(edges') # {} => DeleteStep]_vars

(* C12, amended: the edge set gains an edge only in a committing            *)
(* pointer-down on a port or in the startup auto-connect callback, and      *)
(* loses one only in deleteEdge or deleteNode.                              *)
C12_EdgesOnlyByCommitOrAutoConnect ==
    [][/\ EdgeSet(edges') \ EdgeSet(edges) # {} => CommitStep \/ AutoConnect
       /\ EdgeSet(edges) \ EdgeSet(edges') # {} => DeleteStep]_vars

(* an edge exists before the auto-connect has run: the user committed it *)
C12_Witness ==
    /\ timer = "connect"
    /\ Len(edges) = 1
    /\ IsNull(connectingPort)

(* C17: after every handler, input port number i (from 0) of each node n    *)
(* is stored at (n.x, n.y + 20 + 30*i) and output port number i at          *)
(* (n.x + n.width, n.y + 20 + 30*i).                                        *)
C17_PortsFollowOwner ==
    \A k \in DOMAIN nodes :
       LET n == nodes[k] IN
          /\ \A i \in DOMAIN n.inputPorts :
                /\ n.inputPorts[i].x = n.x
                /\ n.inputPorts[i].y = QAdd(n.y, QInt(20 + 30 * (i - 1)))
          /\ \A i \in DOMAIN n.outputPorts :
                /\ n.outputPorts[i].x = QAdd(n.x, QInt(n.width))
                /\ n.outputPorts[i].y = QAdd(n.y, QInt(20 + 30 * (i - 1)))

(* a node with a port that was dragged away and then configured *)
C17_Witness ==
    \E k \in DOMAIN nodes :
       /\ ~IsNull(nodes[k].data)
       /\ nodes[k].y # QInt(300 - 50)
       /\ PortsOf(nodes[k]) # {}

(* id, name and direction of the ports in a list *)
PortNames(ps) == [k \in DOMAIN ps |-> <<ps[k].id, ps[k].name, ps[k].type>>]

PortObjects(n) == {port.obj : port \in PortsOf(n)}

(* C18: a Dataset has no input and one output port, a Processor and a Model *)
(* one of each, a Metric one input and no output port; no step adds,        *)
(* removes, renames or replaces a port of a node that stays in the graph,   *)
(* and no two nodes share a port object.                                    *)
C18_PortsFixedByKind ==
    [][/\ \A k \in DOMAIN nodes' :
            LET n == nodes'[k] IN
               /\ PortNames(n.inputPorts)
                     = IF n.type = "dataset" THEN <<>>
                       ELSE <<<<"input-1", "Input", "input">>>>
               /\ PortNames(n.outputPorts)
                     = IF n.type = "metric" THEN <<>>
                       ELSE <<<<"output-1", "Output", "output">>>>
       /\ \A k, j \in DOMAIN nodes' :
            k # j => PortObjects(nodes'[k]) \cap PortObjects(nodes'[j]) = {}
       /\ \A k \in DOMAIN nodes : \A j \in DOMAIN nodes' :
            nodes'[j].ref = nodes[k].ref
            => /\ nodes'[j].type = nodes[k].type
               /\ PortNames(nodes'[j].inputPorts) = PortNames(nodes[k].inputPorts)
               /\ PortNames(nodes'[j].outputPorts) = PortNames(nodes[k].outputPorts)
               /\ PortObjects(nodes'[j]) = PortObjects(nodes[k])]_vars

(* a configured node next to a node created from the menu *)
C18_Witness ==
    /\ Len(nodes) > 4
    /\ \E k \in DOMAIN nodes : ~IsNull(nodes[k].data)

QAbs(a) == <<Abs(a[1]), a[2]>>

(* a <= b for fractions of positive denominator, by integer parts and then  *)
(* the reciprocals of the remainders, so that no product is formed          *)
RECURSIVE QLessEq(_, _)
QLessEq(a, b) ==
    LET fa == a[1] \div a[2]
        fb == b[1] \div b[2]
        ra == a[1] % a[2]
        rb == b[1] % b[2]
    IN  IF fa # fb THEN fa < fb
        ELSE IF ra = 0 THEN TRUE
        ELSE IF rb = 0 THEN FALSE
        ELSE QLessEq(<<b[2], rb>>, <<a[2], ra>>)

(* 2^MantissaBits * |r - c| * scale <= 5 * max(|c| * scale, |off|) *)
WithinRounding(r, c, off, sc) ==
    LET err == QMul(QInt(Pow2(MantissaBits)), QMul(QAbs(QSub(r, c)), FloatScale(sc)))
    IN  \/ QLessEq(err, QMul(QInt(5), QMul(QAbs(c), FloatScale(sc))))
        \/ QLessEq(err, QInt(5 * Abs(off)))

(* C21, as stated: converting a canvas point to the screen and back yields  *)
(* the point again, at every offset and every scale in [0.1, 3.0].          *)
C21_RoundTripExact ==
    [][ContextMenuAtRecordedPoint => contextMenuCanvasPos' = contextMenuCanvasPos]_vars

(* C21, amended: converting a canvas point to the screen and back yields    *)
(* the point up to rounding: in each coordinate the result r and the point  *)
(* c satisfy |r - c| * scale <= 5u * max(|c| * scale, |offset|), u = 2^-t   *)
(* being the unit of rounding of floating-point numbers of t bits.          *)
C21_RoundTripWithinRounding ==
    [][ContextMenuAtRecordedPoint =>
          /\ WithinRounding(contextMenuCanvasPos'.x, contextMenuCanvasPos.x,
                            canvasOffset.x, canvasScale)
          /\ WithinRounding(contextMenuCanvasPos'.y, contextMenuCanvasPos.y,
                            canvasOffset.y, canvasScale)]_vars

(* a point converted there and back under a zoomed and panned viewport *)
C21_Witness ==
    /\ showNodeMenu
    /\ canvasScale = [digits |-> <<1, 1>>, exp |-> 1]
    /\ canvasOffset = [x |-> 37, y |-> -15]


C23_ReleaseEndsPanAndDrag ==
    [][/\ OnMouseUp =>
            /\ ~isPanning'
            /\ IsNull(draggingNode')
            /\ nodes' = nodes
            /\ edges' = edges
            /\ canvasOffset' = canvasOffset
            /\ canvasScale' = canvasScale
       /\ (/\ ~isPanning
           /\ IsNull(draggingNode)
           /\ \E p \in Pointers : OnMouseMove(p))
          => nodes' = nodes /\ canvasOffset' = canvasOffset]_vars

(* a node has been dragged away from where it was created, the canvas has   *)
(* been panned, and both have been released                                 *)
C23_Witness ==
    /\ ~isPanning
    /\ IsNull(draggingNode)
    /\ canvasOffset # [x |-> 0, y |-> 0]
    /\ \E k \in DOMAIN nodes : nodes[k].y # QInt(300 - 50)


(* the node that a createNode step has just appended *)
Created == nodes'[Len(nodes')]

RecordsSpawnPoint ==
    \A p \in Pointers :
        OnCanvasContextMenu(p) =>
            contextMenuCanvasPos' = ScreenToCanvas(p, canvasOffset, canvasScale)

FromOpenMenu == showNodeMenu /\ \E type \in Kinds : CreateNode(type)

(* the recorded point is replaced only by a right-click *)
KeptUntilRightClick ==
    contextMenuCanvasPos' # contextMenuCanvasPos => \E p \in Pointers : OnCanvasContextMenu(p)

(* C24, as stated: a right-click records the canvas point under the pointer *)
(* in the viewport of that moment, and a node created from the open menu    *)
(* has its position equal to the recorded point.                            *)
C24_CreatedAtSpawnPoint ==
    [][/\ RecordsSpawnPoint
       /\ KeptUntilRightClick
       /\ FromOpenMenu =>
             /\ Created.x = contextMenuCanvasPos.x
             /\ Created.y = contextMenuCanvasPos.y]_vars

(* C24, amended: a right-click records the canvas point under the pointer   *)
(* in the viewport of that moment, and a node created from the open menu    *)
(* has its position 100 to the left of and 50 above the recorded point.     *)
C24_CreatedAroundSpawnPoint ==
    [][/\ RecordsSpawnPoint
       /\ KeptUntilRightClick
       /\ FromOpenMenu =>
             /\ Created.x = QSub(contextMenuCanvasPos.x, QInt(100))
             /\ Created.y = QSub(contextMenuCanvasPos.y, QInt(50))]_vars

(* a node created from the menu after a right-click in a zoomed viewport *)
C24_Witness ==
    /\ canvasScale # ScaleOne
    /\ ~showNodeMenu
    /\ \E k \in DOMAIN nodes :
          /\ nodes[k].x = QSub(contextMenuCanvasPos.x, QInt(100))
          /\ nodes[k].y = QSub(contextMenuCanvasPos.y, QInt(50))
          /\ contextMenuCanvasPos.x # QInt(0)


NothingToApply == IsNull(detailNode) \/ selectedId = "" \/ selectedVersion = ""

(* C25: a configuration commit attempted while no id or no version is      *)
(* chosen, or while no node is being configured, raises a user prompt and   *)
(* mutates nothing: the nodes (payloads and titles), the edges and the      *)
(* open state of the detail panel are unchanged.                            *)
C25_IncompleteCommitChangesNothing ==
    [][NothingToApply /\ OnApplyConfiguration =>
          /\ ev'.alert # <<>>
          /\ nodes' = nodes
          /\ edges' = edges
          /\ showDetailPanel' = showDetailPanel
          /\ detailNode' = detailNode]_vars

(* the prompt raised for a node whose id was chosen and whose version was   *)
(* not, with the panel still open on it                                     *)
C25_Witness ==
    /\ ev.alert = <<"Please select an ID and Version">>
    /\ showDetailPanel
    /\ ~IsNull(detailNode)
    /\ selectedId # ""
    /\ selectedVersion = ""


-----------------------------------------------------------------------------
(* What the export dialog is given: getExportDatasets, getExportModels and *)
(* getExportMetrics, bound to the dialog's inputs datasets, models and      *)
(* metrics.                                                                 *)
ExportItems(ns, type) ==
    LET kept == SelectSeq(ns, LAMBDA n :
                    /\ n.type = type
                    /\ ~IsNull(n.data)
                    /\ The(n.data).id # ""
                    /\ The(n.data).selected_version # "")
    IN  [k \in DOMAIN kept |-> [data |-> kept[k].data, isSelected |-> FALSE]]

getExportDatasets == ExportItems(nodes, "dataset")
getExportModels == ExportItems(nodes, "model")
getExportMetrics == ExportItems(nodes, "metric")

ExportDialogInputs ==
    [datasets |-> getExportDatasets, models |-> getExportModels,
     metrics |-> getExportMetrics]

(* the node kind that an input of the dialog stands for *)
KindOfInput ==
    [datasets |-> "dataset", models |-> "model", metrics |-> "metric"]

NodeReceived(n) ==
    \E f \in DOMAIN ExportDialogInputs :
        /\ KindOfInput[f] = n.type
        /\ \E k \in DOMAIN ExportDialogInputs[f] : ExportDialogInputs[f][k].data = n.data

(* the dialog receives an edge when one of its inputs holds the endpoints *)
EdgeReceived(e) ==
    \E f \in DOMAIN ExportDialogInputs :
        \E k \in DOMAIN ExportDialogInputs[f] :
            LET item == ExportDialogInputs[f][k]
            IN  /\ {"sourceNodeId", "targetNodeId"} \subseteq DOMAIN item
                /\ item.sourceNodeId = e.sourceNodeId
                /\ item.targetNodeId = e.targetNodeId

(* C26: what the export dialog receives covers the graph: every node in     *)
(* nodes, of every kind, with its kind and its configuration payload, and   *)
(* every edge in edges, with its endpoints.                                 *)
C26_ExportCoversGraph ==
    /\ \A k \in DOMAIN nodes : NodeReceived(nodes[k])
    /\ \A j \in DOMAIN edges : EdgeReceived(edges[j])


-----------------------------------------------------------------------------
(* Edge geometry. A path is the sequence of the tokens of the SVG path     *)
(* string; the empty string is the empty sequence.                          *)
ToScreenX(x) == QPlus(QMul(x, ScaleQ(canvasScale)), canvasOffset.x)
ToScreenY(y) == QPlus(QMul(y, ScaleQ(canvasScale)), canvasOffset.y)

(* Math.min *)
QMin(a, b) == IF QLessEq(a, b) THEN a ELSE b

(* getEdgePath(edge) *)
getEdgePath(edge) ==
    LET sourceNode == FindNode(nodes, edge.sourceNodeId)
        targetNode == FindNode(nodes, edge.targetNodeId)
    IN  IF IsNull(sourceNode) \/ IsNull(targetNode) THEN <<>>
        ELSE
        LET sourcePort == FindPort(The(sourceNode).outputPorts, edge.sourcePortId)
            targetPort == FindPort(The(targetNode).inputPorts, edge.targetPortId)
        IN  IF IsNull(sourcePort) \/ IsNull(targetPort) THEN <<>>
            ELSE
            LET x1 == ToScreenX(The(sourcePort).x)
                y1 == ToScreenY(The(sourcePort).y)
                x2 == ToScreenX(The(targetPort).x)
                y2 == ToScreenY(The(targetPort).y)
                dx == QSub(x2, x1)
                controlOffset == QMin(QMul(QAbs(dx), Q(1, 2)), QInt(150))
            IN  <<"M", x1, y1, "C", QAdd(x1, controlOffset), y1,
                  QSub(x2, controlOffset), y2, x2, y2>>

(* the preview curve with the control points always half the distance away *)
getTempEdgePathUncapped ==
    IF IsNull(connectingPort) \/ IsNull(tempEdgeEnd) THEN <<>>
    ELSE
    LET node == FindNode(nodes, The(connectingPort).nodeId)
    IN  IF IsNull(node) THEN <<>>
        ELSE
        LET ports == IF The(connectingPort).type = "input"
                     THEN The(node).inputPorts ELSE The(node).outputPorts
            port == FindPort(ports, The(connectingPort).portId)
        IN  IF IsNull(port) THEN <<>>
            ELSE
            LET x1 == ToScreenX(The(port).x)
                y1 == ToScreenY(The(port).y)
                x2 == ToScreenX(The(tempEdgeEnd).x)
                y2 == ToScreenY(The(tempEdgeEnd).y)
                dx == QSub(x2, x1)
                controlOffset == QMul(QAbs(dx), Q(1, 2))
            IN  <<"M", x1, y1, "C", QAdd(x1, controlOffset), y1,
                  QSub(x2, controlOffset), y2, x2, y2>>

(* getTempEdgePath() *)
getTempEdgePath ==
    IF IsNull(connectingPort) \/ IsNull(tempEdgeEnd) THEN <<>>
    ELSE
    LET node == FindNode(nodes, The(connectingPort).nodeId)
    IN  IF IsNull(node) THEN <<>>
        ELSE
        LET ports == IF The(connectingPort).type = "input"
                     THEN The(node).inputPorts ELSE The(node).outputPorts
            port == FindPort(ports, The(connectingPort).portId)
        IN  IF IsNull(port) THEN <<>>
            ELSE
            LET x1 == ToScreenX(The(port).x)
                y1 == ToScreenY(The(port).y)
                x2 == ToScreenX(The(tempEdgeEnd).x)
                y2 == ToScreenY(The(tempEdgeEnd).y)
                dx == QSub(x2, x1)
                controlOffset == QMin(QMul(QAbs(dx), Q(1, 2)), QInt(150))
            IN  <<"M", x1, y1, "C", QAdd(x1, controlOffset), y1,
                  QSub(x2, controlOffset), y2, x2, y2>>

(* pointer positions on and off the ports of the example nodes *)
PathPointers == {[x |-> 300, y |-> 270], [x |-> 650, y |-> 300]}

(* a connection can be started before the auto-connect timer fires; the    *)
(* other pointer events come after it                                      *)

NextPath ==
    \/ AddExampleNodes /\ UNCHANGED steps
    \/ AutoConnect /\ ClockStill /\ UNCHANGED steps
    \/ CountedEdit /\ ClockStill /\ \E i \in DOMAIN nodes : \E port \in PortsOf(nodes[i]) :
          OnPortMouseDown(i, port)
    \/ CountedEdit /\ timer = "none" /\ ClockStill /\ \E p \in PathPointers : \E i \in NodesUnder(p) :
          OnNodeMouseDown(i, p, 0, FALSE)
    \/ CountedEdit /\ timer = "none" /\ \E p \in PathPointers : OnMouseMove(p)
    \/ CountedEdit /\ timer = "none" /\ canvasScale.exp < MaxWheel /\
          \E deltaY \in DeltaYs : OnCanvasWheel(deltaY)

SpecPath == Init /\ [][NextPath]_vars

(* the end points of a path and its control offset *)
EndPoints(path) == <<path[2], path[3], path[9], path[10]>>
ControlOffsetOf(path) == QSub(path[5], path[2])

(* a cubic curve through (x1, y1) and (x2, y2) with control offset co *)
IsCubicWithOffset(path, co) ==
    path = <<"M", path[2], path[3], "C", QAdd(path[2], co), path[3],
             QSub(path[9], co), path[10], path[9], path[10]>>

WellFormedPath(path) ==
    LET half == QMul(QAbs(QSub(path[9], path[2])), Q(1, 2))
        co == ControlOffsetOf(path)
    IN  /\ co = (IF QLessEq(half, QInt(150)) THEN half ELSE QInt(150))
        /\ QLessEq(QInt(0), co)
        /\ QLessEq(co, QInt(150))
        /\ IsCubicWithOffset(path, co)

(* C27: for the same pair of screen points getEdgePath and getTempEdgePath  *)
(* return the same cubic path, with controlOffset = min(|x2 - x1| * 0.5,    *)
(* 150), control points (x1 + controlOffset, y1) and (x2 - controlOffset,   *)
(* y2), and 0 <= controlOffset <= 150.                                      *)
C27_SameCurveForSamePoints ==
    /\ \A j \in DOMAIN edges :
          /\ getEdgePath(edges[j]) # <<>> => WellFormedPath(getEdgePath(edges[j]))
          /\ (/\ getEdgePath(edges[j]) # <<>>
              /\ getTempEdgePath # <<>>
              /\ EndPoints(getEdgePath(edges[j])) = EndPoints(getTempEdgePath))
             => getEdgePath(edges[j]) = getTempEdgePath
    /\ getTempEdgePath # <<>> => WellFormedPath(getTempEdgePath)

(* an edge and the preview between the same two points, more than 300 apart *)
C27_Witness ==
    \E j \in DOMAIN edges :
        /\ getEdgePath(edges[j]) # <<>>
        /\ getTempEdgePath # <<>>
        /\ EndPoints(getEdgePath(edges[j])) = EndPoints(getTempEdgePath)
        /\ ControlOffsetOf(getTempEdgePath) = QInt(150)
        /\ getTempEdgePath[10] # getTempEdgePath[3]


-----------------------------------------------------------------------------
(* A click on the empty canvas reaches two listeners: onCanvasClick on the  *)
(* host, with the container as target, and onDocumentClick on the document, *)
(* with a target outside the menu.                                          *)

(* the click not reaching the document listener *)
ClickOnEmptyCanvasHostOnly ==
    /\ selectedNode' = Null
    /\ connectingPort' = Null
    /\ tempEdgeEnd' = Null
    /\ startedOn' = 0
    /\ ev' = Plain
    /\ UNCHANGED <<nodes, edges, showNodeMenu, contextMenuCanvasPos, canvasOffset,
                   canvasScale, now, nextRef, timer>>
    /\ UNCHANGED <<pointerVars, panelVars>>

ClickOnEmptyCanvas ==
    \* onCanvasClick
    /\ selectedNode' = Null
    /\ connectingPort' = Null
    /\ tempEdgeEnd' = Null
    /\ startedOn' = 0
    \* onDocumentClick
    /\ showNodeMenu' = IF showNodeMenu THEN FALSE ELSE showNodeMenu
    /\ ev' = Plain
    /\ UNCHANGED <<nodes, edges, contextMenuCanvasPos, canvasOffset, canvasScale, now,
                   nextRef, timer>>
    /\ UNCHANGED <<pointerVars, panelVars>>

(* Every interaction mode, the detail panel and node deletion, with the     *)
(* release and the click on the empty canvas possible in every state.       *)
NextIdle ==
    \/ AddExampleNodes /\ ClockStill /\ UNCHANGED steps
    \/ Counted /\ ClockStill /\ \E p \in Pointers : \E i \in NodesUnder(p) :
          OnNodeMouseDown(i, p, 0, FALSE)
    \/ Counted /\ CanvasDownEvent
    \/ Counted /\ \E p \in Pointers : OnMouseMove(p)
    \/ Counted /\ ClockStill /\ \E i \in DOMAIN nodes : \E port \in PortsOf(nodes[i]) :
          OnPortMouseDown(i, port)
    \/ Counted /\ \E p \in Pointers : OnCanvasContextMenu(p)
    \/ Counted /\ \E i \in DOMAIN nodes : DeleteNode(i)
    \/ OnMouseUp /\ UNCHANGED steps
    \/ ClickOnEmptyCanvas /\ UNCHANGED steps

SpecIdle == Init /\ [][NextIdle]_vars

Released == ~isPanning /\ IsNull(draggingNode)

Idle ==
    /\ ~isPanning
    /\ IsNull(draggingNode)
    /\ IsNull(connectingPort)
    /\ IsNull(tempEdgeEnd)
    /\ ~showNodeMenu

(* C28: the editor has no terminal state: in every reachable state a        *)
(* pointer-up followed by a click on the empty canvas is accepted and leads *)
(* to Idle: isPanning false, draggingNode null, connectingPort null,        *)
(* tempEdgeEnd null and showNodeMenu false.                                 *)
C28_ReleaseAndClickLeadToIdle ==
    [][/\ ENABLED (OnMouseUp /\ UNCHANGED steps)
       /\ ENABLED (ClickOnEmptyCanvas /\ UNCHANGED steps)
       /\ OnMouseUp => Released' /\ ~ev'.threw
       /\ (Released /\ ClickOnEmptyCanvas) => Idle' /\ ~ev'.threw]_vars

(* every mode has been entered and left: the canvas was panned, the menu    *)
(* was opened, the nodes were deleted, and the editor is idle                *)
C28_Witness ==
    /\ Idle
    /\ canvasOffset # [x |-> 0, y |-> 0]
    /\ contextMenuCanvasPos # [x |-> QInt(0), y |-> QInt(0)]
    /\ timer = "connect"
    /\ nodes = <<>>


(* C29: when both startup timers have fired with no user operation in       *)
(* between, the graph has exactly the four nodes Dataset, Processor, Model, *)
(* Metric in that order and exactly three edges, the k-th from the output   *)
(* of the k-th node to the input of the next, whatever the clock returned.  *)
C29_StartupChain ==
    (timer = "none" /\ steps = 0) =>
        /\ Len(nodes) = 4
        /\ [k \in 1..4 |-> nodes[k].type] = <<"dataset", "processor", "model", "metric">>
        /\ Len(edges) = 3
        /\ \A k \in 1..3 :
              /\ FindNode(nodes, edges[k].sourceNodeId) = Some(nodes[k])
              /\ edges[k].sourcePortId = nodes[k].outputPorts[1].id
              /\ FindNode(nodes, edges[k].targetNodeId) = Some(nodes[k + 1])
              /\ edges[k].targetPortId = nodes[k + 1].inputPorts[1].id


(* the three ways in which a press on node n is not the second of a pair    *)
AfterOtherNode(n) == ~IsNull(lastClickedNode) /\ lastClickedNode # Some(n.ref)

AfterWindow(n) ==
    /\ lastClickedNode = Some(n.ref)
    /\ now' - lastClickTime >= DoubleClickWindow

AfterDoubleClick(n) ==
    /\ IsNull(lastClickedNode)
    /\ showDetailPanel
    /\ detailNode = Some(n.ref)

(* C30: a pointer-down on a node starts a drag of that node and does not    *)
(* open the configuration view when the previous pointer-down was on        *)
(* another node, when it was on the same node 300 ms or more earlier, or    *)
(* when it was on this node and was itself handled as a double-click.       *)
C30_UnpairedPressStartsDrag ==
    [][\A p \in Pointers : \A i \in NodesUnder(p) :
         (/\ \/ AfterOtherNode(nodes[i])
             \/ AfterWindow(nodes[i])
             \/ AfterDoubleClick(nodes[i])
          /\ OnNodeMouseDown(i, p, 0, FALSE))
         => /\ draggingNode' = Some(nodes[i].ref)
            /\ dragOffset' = DragOffsetAt(nodes[i], p, canvasOffset, canvasScale)
            /\ showDetailPanel' = showDetailPanel
            /\ detailNode' = detailNode]_vars

(* the third rapid press on a node: its view was opened by the second, the  *)
(* third is recorded as a first press and drags it                          *)
C30_Witness ==
    /\ showDetailPanel
    /\ ~IsNull(detailNode)
    /\ lastClickedNode = detailNode
    /\ draggingNode = detailNode
    /\ lastClickTime < DoubleClickWindow
    /\ now < DoubleClickWindow

-----------------------------------------------------------------------------
(* the commit acts: the selection check of lines 731-734 passes *)
Commits == OnApplyConfiguration /\ ~NothingToApply

(* the node the panel is open on *)
IsDetailNode(n) == detailNode = Some(n.ref)

(* C31: a configuration commit that passes the selection check changes     *)
(* only the payload and the title of the configured node, the title to      *)
(* '<catalog name> (v<selected version>)', and closes the detail panel;     *)
(* the id, kind, position, size and ports of that node, every other node    *)
(* and every edge are unchanged.                                            *)
C31_CommitChangesPayloadAndTitle ==
    [][Commits =>
          /\ ~showDetailPanel'
          /\ detailNode' = Null
          /\ edges' = edges
          /\ DOMAIN nodes' = DOMAIN nodes
          /\ \A k \in DOMAIN nodes :
                IF IsDetailNode(nodes[k])
                THEN /\ nodes'[k] = [nodes[k] EXCEPT !.data = nodes'[k].data,
                                                     !.title = nodes'[k].title]
                     /\ \E item \in Available(nodes[k].type) :
                           /\ item.id = selectedId
                           /\ nodes'[k].title = ConfiguredTitle(item.name, selectedVersion)
                ELSE nodes'[k] = nodes[k]]_vars

(* C32: after a configuration commit that passes the selection check, the  *)
(* payload of the configured node carries the chosen item: its id field     *)
(* equals the selected id and its selected_version the selected version,    *)
(* whatever the kind of the node and also when the catalog was loaded       *)
(* again between the choice of the id and the commit.                       *)
C32_CommitCarriesChosenItem ==
    [][Commits =>
          \A k \in DOMAIN nodes :
              IsDetailNode(nodes[k]) =>
                  /\ ~IsNull(nodes'[k].data)
                  /\ The(nodes'[k].data).id = selectedId
                  /\ The(nodes'[k].data).selected_version = selectedVersion]_vars

-----------------------------------------------------------------------------
(* What a node has stored: its payload with each hyperparameter set         *)
(* followed to the parameter values it holds.                               *)
StoredPayload(data, heap) ==
    IF IsNull(data) \/ IsNull(The(data).hyperparameter_sets) THEN data
    ELSE Some([The(data) EXCEPT !.hyperparameter_sets =
                  Some([k \in DOMAIN The(The(data).hyperparameter_sets) |->
                           [id |-> The(The(data).hyperparameter_sets)[k].id,
                            parameters |->
                                heap[The(The(data).hyperparameter_sets)[k].parameters]]])])

(* an edit of the hyperparameter sets in the form *)
HyperparameterEdit ==
    \/ AddHyperparameterSet
    \/ \E k \in DOMAIN hyperparameterSets :
          \/ RemoveHyperparameterSet(hyperparameterSets[k].id)
          \/ \E name \in HyperparameterNames :
                \/ ResetHyperparameterToDefault(hyperparameterSets[k].id, name)
                \/ \E value \in HyperparameterValues :
                      UpdateHyperparameterValue(hyperparameterSets[k].id, name, value)

(* C33: edits made in the detail panel are uncommitted until Apply:         *)
(* changing hyperparameter values, resetting them, adding or removing       *)
(* hyperparameter sets and closing the panel without Apply leave what every *)
(* node has stored, the parameter values of its stored hyperparameter sets  *)
(* included, exactly as it was when the panel was opened.                   *)
C33_EditsUncommittedUntilApply ==
    [][HyperparameterEdit \/ CloseDetailPanel =>
          /\ DOMAIN nodes' = DOMAIN nodes
          /\ \A k \in DOMAIN nodes :
                StoredPayload(nodes'[k].data, parameters')
                    = StoredPayload(nodes[k].data, parameters)]_vars

-----------------------------------------------------------------------------
(* the node objects and the node ids a step takes out of the graph *)
RemovedRefs == Refs(nodes) \ Refs(nodes')
RemovedIds == {nodes[k].id : k \in DOMAIN nodes} \ {nodes'[k].id : k \in DOMAIN nodes'}

(* C34: after deleteNode(n) no field of the controller refers to the        *)
(* removed node: selectedNode, draggingNode and detailNode are not n and    *)
(* connectingPort.nodeId is not the id of n, so that no later pointer-move  *)
(* or configuration commit acts on a node that has left the graph.          *)
C34_DeleteNodeClearsReferences ==
    [][(\E i \in DOMAIN nodes : DeleteNode(i)) =>
          /\ \A holder \in {selectedNode', draggingNode', detailNode'} :
                ~IsNull(holder) => The(holder) \notin RemovedRefs
          /\ ~IsNull(connectingPort') => The(connectingPort').nodeId \notin RemovedIds]_vars

-----------------------------------------------------------------------------
(* C35: deleteEdge(e) removes exactly the edge e: every other edge present  *)
(* before the call is present afterwards, in the same order, and no node    *)
(* changes, whatever the clock values at which the edges were created,      *)
(* those created back to back by the startup auto-connect included.         *)
C35_DeleteEdgeRemovesOneEdge ==
    [][\A j \in DOMAIN edges :
          DeleteEdge(j) => edges' = RemoveAt(edges, j) /\ nodes' = nodes]_vars

-----------------------------------------------------------------------------
(* a port press that starts a connection at port `port' of nodes[i] *)
StartsConnection(i, port) == IsNull(connectingPort) /\ OnPortMouseDown(i, port)

(* C36: in every reachable state connectingPort is null if and only if      *)
(* tempEdgeEnd is null - the preview endpoint exists exactly while a        *)
(* connection is in progress - and the press that starts a connection puts  *)
(* the endpoint at the position of the port pressed.                        *)
C36_PreviewExactlyWhileConnecting ==
    [][/\ IsNull(connectingPort') <=> IsNull(tempEdgeEnd')
       /\ \A i \in DOMAIN nodes : \A port \in PortsOf(nodes[i]) :
             StartsConnection(i, port) =>
                 /\ connectingPort' = Some([nodeId |-> nodes[i].id, portId |-> port.id,
                                            type |-> port.type])
                 /\ tempEdgeEnd' = Some([x |-> port.x, y |-> port.y])]_vars

(* a connection in progress whose preview endpoint has followed the pointer *)
(* away from the port it started on                                         *)
C36_Witness ==
    /\ ~IsNull(connectingPort)
    /\ ~IsNull(tempEdgeEnd)
    /\ \A i \in DOMAIN nodes : \A port \in PortsOf(nodes[i]) :
          The(tempEdgeEnd) # [x |-> port.x, y |-> port.y]

-----------------------------------------------------------------------------
(* What onExport emits for the datasets, lines 113-132 of the export        *)
(* dialog.  Reading a key an object does not have gives undefined, here "". *)
Field(object, key) == IF key \in DOMAIN object THEN object[key] ELSE ""

ExportedFileMappings(data) ==
    IF ~IsNull(data.file_mappings)
    THEN [data |->
              IF Field(The(data.file_mappings), "generic_data") # ""
              THEN Field(The(data.file_mappings), "generic_data") ELSE "file1",
          ground_truth |->
              IF Field(The(data.file_mappings), "generic_ground_truth") # ""
              THEN Field(The(data.file_mappings), "generic_ground_truth") ELSE "file2"]
    ELSE [data |-> "file1", ground_truth |-> "file2"]

ExportedDatasets ==
    LET items == SelectSeq(ExportDialogInputs.datasets, LAMBDA item :
                     /\ ~IsNull(item.data)
                     /\ The(item.data).id # ""
                     /\ The(item.data).selected_version # "")
    IN  [k \in DOMAIN items |->
            [id |-> The(items[k].data).id,
             version |-> The(items[k].data).selected_version,
             fileMappings |-> ExportedFileMappings(The(items[k].data))]]

(* the dataset nodes the export covers, in the order of the node list *)
ConfiguredDatasets ==
    SelectSeq(nodes, LAMBDA n :
        /\ n.type = "dataset"
        /\ ~IsNull(n.data)
        /\ The(n.data).id # ""
        /\ The(n.data).selected_version # "")

(* C37: the file mapping committed for a dataset node in the detail panel   *)
(* (the data file and the ground-truth file stored in file_mappings of its  *)
(* payload) is the file mapping the export emits for that dataset; the      *)
(* export falls back to 'file1' and 'file2' only for a dataset whose        *)
(* payload has no file mapping.                                             *)
C37_ExportEmitsCommittedFiles ==
    /\ Len(ExportedDatasets) = Len(ConfiguredDatasets)
    /\ \A k \in DOMAIN ConfiguredDatasets :
          LET stored == The(ConfiguredDatasets[k].data).file_mappings
              emitted == ExportedDatasets[k].fileMappings
          IN  IF IsNull(stored)
              THEN emitted = [data |-> "file1", ground_truth |-> "file2"]
              ELSE /\ The(stored).data_file # "" => emitted.data = The(stored).data_file
                   /\ The(stored).ground_truth_file # "" =>
                          emitted.ground_truth = The(stored).ground_truth_file


-----------------------------------------------------------------------------
(* The task filters of the context view and of the export dialog, applied   *)
(* to the same items (getExportModels, getExportMetrics) for the task the   *)
(* context view has selected.                                               *)

(* the entry of the payload's version list for its selected version, both  *)
(* filters' versionList.find                                                *)
SelectedVersionInfo(data) ==
    IF IsNull(data.version_info_list) THEN Null
    ELSE LET list == The(data.version_info_list)
             at == {k \in DOMAIN list : list[k].version_number = data.selected_version}
         IN  IF at = {} THEN Null
             ELSE Some(list[CHOOSE k \in at : \A l \in at : k <= l])

(* taskMatches of the context view, lines 38-45: task_id, else taskId, of  *)
(* an object, the value itself of a plain id                                *)
ContextViewTaskMatches(task) ==
    IF selectedTaskId = "" THEN FALSE
    ELSE LET taskId == IF "plain" \in DOMAIN task THEN task.plain
                       ELSE IF ~IsNull(task.task_id) THEN The(task.task_id)
                       ELSE IF ~IsNull(task.taskId) THEN The(task.taskId)
                       ELSE ""
         IN  taskId = selectedTaskId

(* the callback of filteredModels and filteredMetrics, lines 49-65, 70-85  *)
ShownInContextView(item) ==
    IF selectedTaskId = "" THEN FALSE
    ELSE IF IsNull(item.data) THEN TRUE
    ELSE LET versionInfo == SelectedVersionInfo(The(item.data))
         IN  IF ~IsNull(versionInfo) /\ ~IsNull(The(versionInfo).tasks)
             THEN \E k \in DOMAIN The(The(versionInfo).tasks) :
                      ContextViewTaskMatches(The(The(versionInfo).tasks)[k])
             ELSE FALSE

(* taskMatches of the export dialog, lines 19-25: by task_name or by       *)
(* task_id, else id; a plain id has none of these fields                    *)
ExportDialogTaskMatches(task) ==
    IF selectedTaskType = "" /\ selectedTaskId = "" THEN FALSE
    ELSE LET byName == /\ "task_name" \in DOMAIN task
                       /\ ~IsNull(task.task_name)
                       /\ The(task.task_name) # ""
                       /\ The(task.task_name) = selectedTaskType
             id == IF "plain" \in DOMAIN task THEN ""
                   ELSE IF ~IsNull(task.task_id) THEN The(task.task_id)
                   ELSE IF ~IsNull(task.id) THEN The(task.id)
                   ELSE ""
             byId == selectedTaskId # "" /\ id = selectedTaskId
         IN  byName \/ byId

(* the callback of getFilteredModels and getFilteredMetrics, lines 56-78,  *)
(* 82-104                                                                   *)
CountedAndExported(item) ==
    IF IsNull(item.data) \/ The(item.data).id = "" \/ The(item.data).selected_version = ""
    THEN FALSE
    ELSE IF IsNull(The(item.data).version_info_list) THEN TRUE
    ELSE LET versionInfo == SelectedVersionInfo(The(item.data))
         IN  IF ~IsNull(versionInfo) /\ ~IsNull(The(versionInfo).tasks)
             THEN \E k \in DOMAIN The(The(versionInfo).tasks) :
                      ExportDialogTaskMatches(The(The(versionInfo).tasks)[k])
             ELSE FALSE

(* the configured models and metrics whose selected version has a task list *)
ItemsWithTasks ==
    LET items == ExportDialogInputs.models \o ExportDialogInputs.metrics
    IN  {items[k] : k \in {l \in DOMAIN items :
            LET versionInfo == SelectedVersionInfo(The(items[l].data))
            IN  ~IsNull(versionInfo) /\ ~IsNull(The(versionInfo).tasks)}}

(* C38: for the task selected in the context view (its id and name), a      *)
(* configured model or metric whose selected version carries a task list    *)
(* is shown by the context view's filter exactly when the export dialog's   *)
(* filter counts and exports it, both deciding by the task_id of the        *)
(* entries alone.                                                           *)
C38_TaskFiltersAgree ==
    \A item \in ItemsWithTasks : ShownInContextView(item) <=> CountedAndExported(item)


-----------------------------------------------------------------------------
(* a step of one of the two task handlers of the context view *)
TaskHandlerStep ==
    \/ \E taskId \in TaskIds : OnTaskIdChange(taskId)
    \/ \E k \in DOMAIN taskVersions : OnTaskVersionChange(taskVersions[k])

(* C39: every onTaskIdChange(taskId) and every onTaskVersionChange emits    *)
(* exactly one taskTypeChange event, and the event's taskName, taskId and   *)
(* taskVersion are the component's selectedTaskType, selectedTaskId and     *)
(* selectedTaskVersion as the handler leaves them, also for a taskId that   *)
(* is not among availableTasks; for a task that is, the version is the      *)
(* first of the task's version list, or empty when the list is empty.       *)
C39_OneEventEqualToSelection ==
    [][TaskHandlerStep =>
          /\ Len(taskTypeChange') = 1
          /\ taskTypeChange'[1] = [taskName |-> selectedTaskType',
                                   taskId |-> selectedTaskId',
                                   taskVersion |-> selectedTaskVersion']
          /\ \A taskId \in TaskIds :
                OnTaskIdChange(taskId) /\ ~IsNull(FindTask(taskId)) =>
                    LET versions == VersionNumbers(The(FindTask(taskId)))
                    IN  selectedTaskVersion' =
                            IF Len(versions) > 0 THEN versions[1] ELSE ""]_vars

====
